---- MODULE Spec2Model ----
(***************************************************************************)
(* Texas Hold'em engine (src/game.py, src/player.py, src/card.py,          *)
(* src/hand_evaluator.py) as a state machine.  Indices into the player     *)
(* list are 0-based as in the source; players[i + 1] is the source's       *)
(* self.players[i].                                                        *)
(***************************************************************************)
EXTENDS Integers, Sequences, FiniteSets, TLC

VARIABLES players, deck, community_cards, pots, current_phase,
          active_player_index, dealer_position, small_blind_position,
          big_blind_position, current_bet, hands_played,
          last_pot_total, last_pot_distribution,
          last, pre_hand_total, showdown_calls, issued, round_log, burned,
          player_connection_status, reconnection_timeouts, tasks, sockets,
          disconnects, in_flight, observed, hand, evaluation, ante

gameVars == <<players, deck, community_cards, pots, current_phase,
              active_player_index, dealer_position, small_blind_position,
              big_blind_position, current_bet, hands_played,
              last_pot_total, last_pot_distribution>>

vars == <<players, deck, community_cards, pots, current_phase,
          active_player_index, dealer_position, small_blind_position,
          big_blind_position, current_bet, hands_played,
          last_pot_total, last_pot_distribution, last, pre_hand_total,
          showdown_calls, issued, round_log, burned,
          player_connection_status, reconnection_timeouts, tasks, sockets,
          disconnects, in_flight, observed, hand, evaluation, ante>>

\* the server's dictionaries and tasks (src/server.py)
serverVars == <<player_connection_status, reconnection_timeouts, tasks, sockets,
                disconnects, in_flight, observed>>

\* the hand given to the evaluator and what it returned
evaluatorVars == <<hand, evaluation>>

\* ante is the engine's self.ante, fixed at construction (src/game.py:35)

-----------------------------------------------------------------------------
(* Bounds of the model *)

\* seats the table accepts (the max_players constructor argument)
MaxPlayers == 3

\* hands started on one table
MaxHands == 1

\* calls of process_player_action that change the engine while the phase is
\* showdown, per hand
MaxShowdownCalls == 1

\* hands started on one table when the hands are played one after the other
MaxSessionHands == 3

\* the ante of a table that is constructed with one
TableAnte == 1

\* chip counts a player may bring to a table with an ante
AnteStacks == {1, 5}

\* WebSocket disconnects on one table
MaxDisconnects == 2

\* chip counts a joining player may bring, by the seat it takes
BuyIns(seat) == IF seat = 0 THEN {8} ELSE IF seat = 1 THEN {3} ELSE {5}

\* amounts passed to bet and raise
Amounts == {0, 2, 3, 4, 6}

-----------------------------------------------------------------------------
(* Program constants *)

small_blind == 1
big_blind == 2

\* Python's None for the index attributes
None == 0 - 1

PHASE_NONE == "none"
PHASE_PREFLOP == "pre_flop"
PHASE_FLOP == "flop"
PHASE_TURN == "turn"
PHASE_RIVER == "river"
PHASE_SHOWDOWN == "showdown"

ACTION_FOLD == "fold"
ACTION_CHECK == "check"
ACTION_CALL == "call"
ACTION_BET == "bet"
ACTION_RAISE == "raise"
ACTION_ALL_IN == "all_in"

HIGH_CARD == 0
PAIR == 1
TWO_PAIR == 2
THREE_OF_A_KIND == 3
STRAIGHT == 4
FLUSH == 5
FULL_HOUSE == 6
FOUR_OF_A_KIND == 7
STRAIGHT_FLUSH == 8
ROYAL_FLUSH == 9

-----------------------------------------------------------------------------
(* Cards: card c of the reset deck has suit c \div 13 and rank c % 13       *)

RankValue(c) == c % 13
Suit(c) == c \div 13

\* Deck.reset: [Card(suit, rank) for suit in SUITS for rank in RANKS]
DeckReset == [i \in 1..52 |-> i - 1]

Min(a, b) == IF a <= b THEN a ELSE b

\* the element of a one-element set: Only({e(x) : x \in {v}}) is e(v) with v
\* computed once, as a local variable of the source is
Only(S) == CHOOSE x \in S : TRUE

SumSeq(seq) ==
  Only({LET RECURSIVE Go(_)
            Go(k) == IF k = 0 THEN 0 ELSE s[k] + Go(k - 1)
        IN Go(Len(s)) : s \in {seq}})

Reverse(s) == [i \in 1..Len(s) |-> s[Len(s) + 1 - i]]

SeqRange(s) == {s[i] : i \in 1..Len(s)}

-----------------------------------------------------------------------------
(* Hand evaluator (src/hand_evaluator.py)                                  *)

\* sorted(values, reverse=True) of a set of distinct integers
SortDesc(values) ==
  Only({[i \in 1..Cardinality(S) |->
           CHOOSE x \in S : Cardinality({y \in S : y > x}) = i - 1]
        : S \in {values}})

\* ascending sequence of a set of integers
AscSeq(values) ==
  Only({[i \in 1..Cardinality(S) |->
           CHOOSE x \in S : Cardinality({y \in S : y < x}) = i - 1]
        : S \in {values}})

\* rank_values of a hand, sorted in descending order (duplicates kept)
RankValuesDesc(h) ==
  [i \in 1..Cardinality(h) |->
     RankValue(CHOOSE c \in h :
                 Cardinality({d \in h : RankValue(d) > RankValue(c)
                                         \/ (RankValue(d) = RankValue(c) /\ d < c)})
                   = i - 1)]

RankCount(h, r) == Cardinality({c \in h : RankValue(c) = r})

RanksOfCount(h, n) == {r \in 0..12 : RankCount(h, r) = n}

\* Python's tuple comparison a > b
TupleGT(a, b) ==
  \/ \E i \in 1..Min(Len(a), Len(b)) :
        /\ a[i] > b[i]
        /\ \A j \in 1..(i - 1) : a[j] = b[j]
  \/ /\ Len(a) > Len(b)
     /\ \A j \in 1..Len(b) : a[j] = b[j]

\* an evaluation of five cards that keeps the ace high in A-2-3-4-5
evaluate_ace_high(h) ==
  LET is_flush == Cardinality({Suit(c) : c \in h}) = 1
      rset == {RankValue(c) : c \in h}
      sorted == RankValuesDesc(h)
      is_straight == Cardinality(rset) = 5
                       /\ (sorted[1] - sorted[5] = 4 \/ rset = {0, 1, 2, 3, 12})
  IN [rank |-> IF is_straight /\ is_flush
               THEN IF rset = {8, 9, 10, 11, 12} THEN ROYAL_FLUSH ELSE STRAIGHT_FLUSH
               ELSE IF is_flush THEN FLUSH
               ELSE IF is_straight THEN STRAIGHT
               ELSE HIGH_CARD,
      value |-> sorted]

\* HandEvaluator._evaluate_five_card_hand: (hand_rank, hand_value); nested
\* value tuples are written flat, which keeps their order
EvaluateFiveCardHand(h) ==
 Only({
  LET is_flush == Cardinality({Suit(c) : c \in h}) = 1
      rset == {RankValue(c) : c \in h}
      hi == sorted[1]
      lo == sorted[5]
      wheel == rset = {0, 1, 2, 3, 12}
      is_straight == Cardinality(rset) = 5 /\ (hi - lo = 4 \/ wheel)
      rank_values == IF Cardinality(rset) = 5 /\ hi - lo # 4 /\ wheel
                     THEN <<3, 2, 1, 0, 0 - 1>> ELSE sorted
      fours == RanksOfCount(h, 4)
      threes == RanksOfCount(h, 3)
      twos == RanksOfCount(h, 2)
      ones == RanksOfCount(h, 1)
  IN IF is_straight /\ is_flush
     THEN IF rset = {8, 9, 10, 11, 12}
          THEN [rank |-> ROYAL_FLUSH, value |-> rank_values]
          ELSE [rank |-> STRAIGHT_FLUSH, value |-> rank_values]
     ELSE IF fours # {}
     THEN [rank |-> FOUR_OF_A_KIND, value |-> SortDesc(fours) \o SortDesc(ones)]
     ELSE IF threes # {} /\ twos # {}
     THEN [rank |-> FULL_HOUSE, value |-> SortDesc(threes) \o SortDesc(twos)]
     ELSE IF is_flush
     THEN [rank |-> FLUSH, value |-> rank_values]
     ELSE IF is_straight
     THEN [rank |-> STRAIGHT, value |-> rank_values]
     ELSE IF threes # {}
     THEN [rank |-> THREE_OF_A_KIND, value |-> SortDesc(threes) \o SortDesc(ones)]
     ELSE IF Cardinality(twos) = 2
     THEN [rank |-> TWO_PAIR, value |-> SortDesc(twos) \o SortDesc(ones)]
     ELSE IF twos # {}
     THEN [rank |-> PAIR, value |-> SortDesc(twos) \o SortDesc(ones)]
     ELSE [rank |-> HIGH_CARD, value |-> rank_values]
  : sorted \in {RankValuesDesc(h)}})

\* rank > best_rank or (rank == best_rank and value > best_value)
HandBetter(e, f) ==
  e.rank > f.rank \/ (e.rank = f.rank /\ TupleGT(e.value, f.value))

\* the best_rank / best_value the loop of HandEvaluator.evaluate_hand ends
\* with, over all 5-card combinations of a set of at least 5 cards
BestOfCards(S) ==
  Only({CHOOSE e \in evals : \A f \in evals : ~HandBetter(f, e)
        : evals \in {{EvaluateFiveCardHand(h) :
                        h \in {x \in SUBSET S : Cardinality(x) = 5}}}})

(* Shuffled decks: Deck.shuffle may leave any permutation; the model deals  *)
(* from these.  top lists the cards in the order they are dealt.            *)

Card(suit, rank) == suit * 13 + rank

RiggedDeck(top) == AscSeq((0..51) \ SeqRange(top)) \o Reverse(top)

\* Dealt to three seats: seat 1 makes three aces, seats 0 and 2 tie with the
\* same high-card hand.  Dealt to two seats: both make a pair, seat 1 the
\* higher one.
DeckMixed ==
  RiggedDeck(<<Card(3, 11), Card(0, 0), Card(3, 12), Card(2, 12), Card(2, 11), Card(1, 0),
               Card(0, 1),
               Card(3, 6), Card(1, 12), Card(0, 7),
               Card(1, 1),
               Card(1, 9),
               Card(2, 1),
               Card(2, 2)>>)

Shuffles == {DeckMixed}

\* DeckMixed with the hole cards of seats 0 and 1 exchanged: seat 0 makes
\* three aces
DeckFirst ==
  RiggedDeck(<<Card(3, 12), Card(2, 12), Card(3, 11), Card(0, 0), Card(2, 11), Card(1, 0),
               Card(0, 1),
               Card(3, 6), Card(1, 12), Card(0, 7),
               Card(1, 1),
               Card(1, 9),
               Card(2, 1),
               Card(2, 2)>>)

\* the shuffles of a table with an ante
AnteShuffles == Shuffles \cup {DeckFirst}

\* the cards of a shuffled deck in the order they are dealt
DealOrder(d) == Reverse(d)

\* the hands that can be shown down when n players were dealt in: the hole
\* cards of a seat (none for a player who joined later) with the first 3, 4
\* or 5 community cards
DealtHands ==
  UNION {
    LET o == DealOrder(d)
        board == <<o[2 * n + 2], o[2 * n + 3], o[2 * n + 4], o[2 * n + 6], o[2 * n + 8]>>
    IN {(IF i < n THEN {o[2 * i + 1], o[2 * i + 2]} ELSE {})
          \cup {board[k] : k \in 1..len} : i \in 0..n, len \in 3..5}
    : d \in Shuffles, n \in 2..MaxPlayers}

\* BestOfCards of the hands that can be dealt, computed once
BestOfDealt == [S \in {H \in DealtHands : Cardinality(H) >= 5} |-> BestOfCards(S)]

BestFiveCardHand(cards) ==
  IF SeqRange(cards) \in DOMAIN BestOfDealt THEN BestOfDealt[SeqRange(cards)]
  ELSE BestOfCards(SeqRange(cards))

\* HandEvaluator.evaluate_hand returns best_rank (and its name) only
evaluate_hand(cards) == BestFiveCardHand(cards).rank

\* the fallback of TexasHoldemGame._evaluate_hand, reached when
\* evaluate_hand raises (fewer than 5 cards)
FallbackHandRank(cards) ==
  LET S == SeqRange(cards)
      has_flush == \E s \in 0..3 : Cardinality({c \in S : Suit(c) = s}) >= 5
      has_straight == Cardinality({RankValue(c) : c \in S}) >= 5
      pairs == RanksOfCount(S, 2)
      trips == RanksOfCount(S, 3)
      quads == RanksOfCount(S, 4)
  IN IF has_straight /\ has_flush THEN 8
     ELSE IF quads # {} THEN 7
     ELSE IF trips # {} /\ pairs # {} THEN 6
     ELSE IF has_flush THEN 5
     ELSE IF has_straight THEN 4
     ELSE IF trips # {} THEN 3
     ELSE IF Cardinality(pairs) >= 2 THEN 2
     ELSE IF pairs # {} THEN 1
     ELSE 0

\* TexasHoldemGame._evaluate_hand: the hand_rank it returns
EvaluateHandRank(cards) ==
  IF Len(cards) < 5 THEN FallbackHandRank(cards) ELSE evaluate_hand(cards)

-----------------------------------------------------------------------------
(* Player (src/player.py)                                                  *)

\* Player.__init__
NewPlayer(id, chips) ==
  [player_id |-> id, chips |-> chips, cards |-> <<>>, is_active |-> TRUE,
   is_all_in |-> FALSE, current_bet |-> 0, total_bet |-> 0,
   has_acted |-> FALSE, position |-> "none"]

\* Player.reset_for_new_hand (has_acted and position are left as they are)
reset_for_new_hand(p) ==
  [p EXCEPT !.cards = <<>>, !.is_active = TRUE, !.is_all_in = FALSE,
            !.current_bet = 0, !.total_bet = 0]

\* Player.reset_for_new_betting_round
reset_for_new_betting_round(p) ==
  [p EXCEPT !.has_acted = FALSE, !.current_bet = 0]

\* Player.all_in
all_in(p) ==
  [p EXCEPT !.current_bet = @ + p.chips, !.chips = 0, !.is_all_in = TRUE,
            !.has_acted = TRUE]

\* a bet that leaves has_acted as it is
bet_unmarked(p, amount) ==
  IF amount >= p.chips
  THEN [p EXCEPT !.current_bet = @ + p.chips, !.chips = 0, !.is_all_in = TRUE]
  ELSE [p EXCEPT !.current_bet = amount, !.chips = @ - amount]

\* Player.bet: the player after the bet
bet(p, amount) ==
  IF amount >= p.chips THEN all_in(p)
  ELSE [p EXCEPT !.current_bet = amount, !.chips = @ - amount,
                 !.has_acted = TRUE]

\* Player.bet: the amount it returns
bet_amount(p, amount) == IF amount >= p.chips THEN p.chips ELSE amount

-----------------------------------------------------------------------------
(* Engine helpers (src/game.py).  g is the record of the engine's fields.  *)

NumPlayers(g) == Len(g.players)

\* 0-based indices of the players satisfying a condition, given as a set
ActiveIdx(g) == {i \in 0..(NumPlayers(g) - 1) : g.players[i + 1].is_active}

\* [p for p in self.players if p.is_active and not p.is_all_in]
ActiveNotAllInIdx(g) ==
  {i \in 0..(NumPlayers(g) - 1) :
     g.players[i + 1].is_active /\ ~g.players[i + 1].is_all_in}

PotTotal(ps) == SumSeq([k \in 1..Len(ps) |-> ps[k].amount])

\* `winner_id in pot['eligible_players']`: an int is never equal to a Player
\* object, so the test fails on the list start_new_hand builds
IdInPot(id, pot) ==
  ~pot.holds_players /\ id \in SeqRange(pot.eligible_players)

\* first index at or after start (cyclically) that lies in S
FirstFrom(S, start, n) ==
  LET k == CHOOSE k \in 0..(n - 1) :
             /\ (start + k) % n \in S
             /\ \A j \in 0..(k - 1) : (start + j) % n \notin S
  IN (start + k) % n

\* TexasHoldemGame._determine_winners
determine_winners(g) ==
  LET eligible == AscSeq({i \in 0..(NumPlayers(g) - 1) :
                            g.players[i + 1].is_active \/ g.players[i + 1].is_all_in})
      entry(i, r) == [player |-> i, player_id |-> g.players[i + 1].player_id,
                      hand_rank |-> r, amount |-> 0]
      rank_of(i) == EvaluateHandRank(g.players[i + 1].cards \o g.community_cards)
      ranks == [k \in 1..Len(eligible) |-> rank_of(eligible[k])]
      best_rank == CHOOSE r \in SeqRange(ranks) : \A q \in SeqRange(ranks) : q <= r
      best == AscSeq({eligible[k] : k \in {j \in 1..Len(eligible) : ranks[j] = best_rank}})
  IN IF Len(eligible) = 1 THEN <<entry(eligible[1], 0)>>
     ELSE IF Len(eligible) = 0 THEN <<>>
     ELSE [k \in 1..Len(best) |-> entry(best[k], best_rank)]

\* in _distribute_pot: the winners (positions in the winners list) that one
\* pot counts as eligible
EligibleWinners(pot, winners) ==
  AscSeq({k \in 1..Len(winners) : IdInPot(winners[k].player_id, pot)})

\* in _distribute_pot: what winners[k] is paid out of one pot when several
\* winners chop it
PotShare(pot, winners, k) ==
  LET ew == EligibleWinners(pot, winners)
  IN IF k \notin SeqRange(ew) THEN 0
     ELSE (pot.amount \div Len(ew))
          + (IF ew[1] = k THEN pot.amount % Len(ew) ELSE 0)

RECURSIVE PotDistribution(_, _, _)
\* in _distribute_pot: the pot_distribution list, pot by pot
PotDistribution(ps, winners, j) ==
  IF j > Len(ps) THEN <<>>
  ELSE LET ew == EligibleWinners(ps[j], winners)
       IN [k \in 1..Len(ew) |->
             [player_id |-> winners[ew[k]].player_id,
              amount |-> PotShare(ps[j], winners, ew[k])]]
          \o PotDistribution(ps, winners, j + 1)

\* TexasHoldemGame._distribute_pot; g.winners receives the returned list
distribute_pot(g, winners) ==
  LET total == PotTotal(g.pots)
      emptied == [j \in 1..Len(g.pots) |-> [g.pots[j] EXCEPT !.amount = 0]]
      w1 == winners[1]
      total_winnings ==
        SumSeq([j \in 1..Len(g.pots) |->
                  IF IdInPot(w1.player_id, g.pots[j]) THEN g.pots[j].amount ELSE 0])
      won(k) == SumSeq([j \in 1..Len(g.pots) |-> PotShare(g.pots[j], winners, k)])
      paid(i) == SumSeq([k \in 1..Len(winners) |->
                           IF winners[k].player = i THEN won(k) ELSE 0])
  IN IF Len(winners) = 0 THEN [g EXCEPT !.winners = <<>>]
     ELSE IF Len(winners) = 1
     THEN [g EXCEPT !.players[w1.player + 1].chips = @ + total_winnings,
                    !.winners = <<[w1 EXCEPT !.amount = total_winnings]>>,
                    !.last_pot_total = total,
                    !.last_pot_distribution =
                       <<[player_id |-> w1.player_id, amount |-> total_winnings]>>,
                    !.pots = emptied]
     ELSE [g EXCEPT !.players = [i \in 1..Len(g.players) |->
                                   [g.players[i] EXCEPT !.chips = @ + paid(i - 1)]],
                    !.winners = [k \in 1..Len(winners) |->
                                   [winners[k] EXCEPT !.amount = won(k)]],
                    !.last_pot_total = total,
                    !.last_pot_distribution = PotDistribution(g.pots, winners, 1),
                    !.pots = emptied]

RECURSIVE LevelPot(_, _, _, _, _)
\* in create_side_pots: the inner loop over players_in_hand for one bet
\* level; acc carries pot_amount, eligible_players and processed_bets
LevelPot(g, in_hand, level, k, acc) ==
  IF k > Len(in_hand) THEN acc
  ELSE LET pl == g.players[in_hand[k] + 1]
           contribution == Min(pl.current_bet, level) - acc.processed[pl.player_id]
       IN IF contribution > 0
          THEN LevelPot(g, in_hand, level, k + 1,
                 [amount |-> acc.amount + contribution,
                  eligible |-> Append(acc.eligible, pl.player_id),
                  processed |-> [acc.processed EXCEPT ![pl.player_id] = @ + contribution]])
          ELSE LevelPot(g, in_hand, level, k + 1, acc)

\* a pot list built with self.pots.insert(0, ...): newest pot first
AppendPotFront(pot_list, pot) == <<pot>> \o pot_list

\* in create_side_pots: self.pots.append(...) of a pot with money in it
AppendPot(pot_list, pot) == Append(pot_list, pot)

RECURSIVE SidePots(_, _, _, _, _, _)
\* in create_side_pots: the loop over sorted_players (levels is the list of
\* their current bets, ascending); returns the new pot list
SidePots(g, in_hand, levels, k, prev_bet, st) ==
  IF k > Len(levels) THEN st.pots
  ELSE IF levels[k] = prev_bet
  THEN SidePots(g, in_hand, levels, k + 1, prev_bet, st)
  ELSE LET r == LevelPot(g, in_hand, levels[k], 1,
                   [amount |-> 0, eligible |-> <<>>, processed |-> st.processed])
           new_pots == IF r.amount > 0
                       THEN AppendPot(st.pots, [amount |-> r.amount,
                                                eligible_players |-> r.eligible,
                                                holds_players |-> FALSE])
                       ELSE st.pots
       IN SidePots(g, in_hand, levels, k + 1, levels[k],
                   [pots |-> new_pots, processed |-> r.processed])

\* sorted(players_in_hand, key=current_bet): the bets in ascending order
SortedBets(g, in_hand) ==
  LET RECURSIVE Go(_)
      Go(S) == IF S = {} THEN <<>>
               ELSE LET m == CHOOSE i \in S :
                               \A j \in S : g.players[i + 1].current_bet
                                              <= g.players[j + 1].current_bet
                    IN <<g.players[m + 1].current_bet>> \o Go(S \ {m})
  IN Go(SeqRange(in_hand))

\* TexasHoldemGame.create_side_pots
create_side_pots(g) ==
  IF ~\E i \in ActiveIdx(g) : g.players[i + 1].is_all_in THEN g
  ELSE
    LET in_hand == AscSeq(ActiveIdx(g))
        ids == {g.players[in_hand[k] + 1].player_id : k \in 1..Len(in_hand)}
        total_pot == PotTotal(g.pots)
        built == SidePots(g, in_hand, SortedBets(g, in_hand), 1, 0,
                          [pots |-> <<>>, processed |-> [id \in ids |-> 0]])
        new_total == PotTotal(built)
        fixed == IF new_total # total_pot /\ Len(built) > 0
                 THEN [built EXCEPT ![Len(built)].amount = @ + (total_pot - new_total)]
                 ELSE built
    IN IF Len(fixed) = 0
       THEN [g EXCEPT !.pots =
               <<[amount |-> total_pot,
                  eligible_players |->
                     [k \in 1..Len(in_hand) |-> g.players[in_hand[k] + 1].player_id],
                  holds_players |-> FALSE]>>]
       ELSE [g EXCEPT !.pots = fixed]

\* TexasHoldemGame._add_to_pot (the pot list is never empty)
add_to_pot(g, amount) == [g EXCEPT !.pots[1].amount = @ + amount]

\* TexasHoldemGame._reset_betting_round
reset_betting_round(g) ==
  [g EXCEPT !.current_bet = 0,
            !.players = [i \in 1..Len(g.players) |->
                           IF g.players[i].is_active
                           THEN reset_for_new_betting_round(g.players[i])
                           ELSE g.players[i]]]

\* a completion test that skips the seats that have not acted yet
matched_by_those_who_acted(g) ==
  LET acting == ActiveNotAllInIdx(g)
      max_bet == CHOOSE m \in {g.players[i + 1].current_bet : i \in ActiveIdx(g)} :
                   \A i \in ActiveIdx(g) : g.players[i + 1].current_bet <= m
  IN \A i \in acting :
        g.players[i + 1].has_acted => g.players[i + 1].current_bet >= max_bet

\* TexasHoldemGame._is_betting_round_complete
is_betting_round_complete(g) ==
  LET acting == ActiveNotAllInIdx(g)
      max_bet == CHOOSE m \in {g.players[i + 1].current_bet : i \in ActiveIdx(g)} :
                   \A i \in ActiveIdx(g) : g.players[i + 1].current_bet <= m
  IN IF acting = {} THEN TRUE
     ELSE IF \E i \in acting : ~g.players[i + 1].has_acted THEN FALSE
     ELSE \A i \in acting : g.players[i + 1].current_bet >= max_bet

\* the turn passed to the next seat of the list, whatever its state
move_to_next_seat(g) ==
  [g EXCEPT !.active_player_index = (g.active_player_index + 1) % NumPlayers(g)]

\* TexasHoldemGame._move_to_next_active_player: the new active_player_index
move_to_next_active_player(g) ==
  LET n == NumPlayers(g)
      original == g.active_player_index
  IN [g EXCEPT !.active_player_index =
        FirstFrom(ActiveNotAllInIdx(g) \cup {original}, (original + 1) % n, n)]

\* TexasHoldemGame._set_active_player_after_phase_change
set_active_player_after_phase_change(g) ==
  IF ActiveNotAllInIdx(g) = {}
  THEN [g EXCEPT !.active_player_index = None]
  ELSE [g EXCEPT !.active_player_index =
          FirstFrom(ActiveNotAllInIdx(g), (g.dealer_position + 1) % NumPlayers(g),
                    NumPlayers(g))]

\* Deck.deal_card: pops the last card of the list
DeckTop(d) == d[Len(d)]
DeckPop(d) == SubSeq(d, 1, Len(d) - 1)

\* dealing a street with the burned card left on top of the deck
deal_over_the_burn(g, count) ==
  LET d1 == g.deck
      dealt == [k \in 1..count |-> d1[Len(d1) + 1 - k]]
      kept == IF g.current_phase = PHASE_PREFLOP THEN <<>> ELSE g.community_cards
  IN [g EXCEPT !.deck = SubSeq(d1, 1, Len(d1) - count - 1),
               !.community_cards = kept \o dealt]

\* TexasHoldemGame._deal_community_cards(count), burning one card first
deal_community_cards(g, count) ==
  LET d1 == IF Len(g.deck) > 0 THEN DeckPop(g.deck) ELSE g.deck
      dealt == [k \in 1..count |-> d1[Len(d1) + 1 - k]]
      kept == IF g.current_phase = PHASE_PREFLOP THEN <<>> ELSE g.community_cards
  IN [g EXCEPT !.deck = SubSeq(d1, 1, Len(d1) - count),
               !.community_cards = kept \o dealt]

\* in _advance_game_phase: determine the winners and distribute the pots
Showdown(g) ==
  distribute_pot([g EXCEPT !.current_phase = PHASE_SHOWDOWN], determine_winners(g))

\* in _advance_game_phase: reset the bets for the new betting round
ResetBets(g) ==
  [g EXCEPT !.current_bet = 0,
            !.players = [i \in 1..Len(g.players) |->
                           [g.players[i] EXCEPT !.current_bet = 0,
                                                !.has_acted = FALSE]]]

\* a phase change that goes from the flop straight to the river
next_phase_skipping_turn(g) ==
  IF g.current_phase = PHASE_PREFLOP
  THEN deal_community_cards([g EXCEPT !.current_phase = PHASE_FLOP], 3)
  ELSE IF g.current_phase = PHASE_FLOP
  THEN deal_community_cards([g EXCEPT !.current_phase = PHASE_RIVER], 2)
  ELSE IF g.current_phase = PHASE_RIVER
  THEN Showdown(g)
  ELSE [g EXCEPT !.error = "invalid_phase"]

\* in _advance_game_phase: move to the next phase; error is set where the
\* source raises
NextPhase(g) ==
  IF g.current_phase = PHASE_PREFLOP
  THEN deal_community_cards([g EXCEPT !.current_phase = PHASE_FLOP], 3)
  ELSE IF g.current_phase = PHASE_FLOP
  THEN deal_community_cards([g EXCEPT !.current_phase = PHASE_TURN], 1)
  ELSE IF g.current_phase = PHASE_TURN
  THEN deal_community_cards([g EXCEPT !.current_phase = PHASE_RIVER], 1)
  ELSE IF g.current_phase = PHASE_RIVER
  THEN Showdown(g)
  ELSE [g EXCEPT !.error = "invalid_phase"]

\* TexasHoldemGame._advance_game_phase
advance_game_phase(g) ==
  Only({IF g2.error # "" THEN g2
        ELSE IF Cardinality(ActiveNotAllInIdx(g2)) <= 1
                /\ g2.current_phase # PHASE_SHOWDOWN
        THEN Showdown(g2)
        ELSE IF ActiveNotAllInIdx(g2) # {} /\ g2.current_phase # PHASE_SHOWDOWN
        THEN set_active_player_after_phase_change(g2)
        ELSE g2
        : g2 \in {NextPhase(g1) : g1 \in {ResetBets(g)}}})

\* a fold branch that deals the next street before awarding the pot
fold_deals_street(g, i) ==
  LET g1 == [g EXCEPT !.players[i + 1].is_active = FALSE]
      active == AscSeq(ActiveIdx(g1))
      g2 == reset_betting_round(g1)
      sole == [player |-> active[1],
               player_id |-> g1.players[active[1] + 1].player_id,
               hand_rank |-> 0,
               amount |-> PotTotal(g2.pots)]
  IN IF Len(active) # 1 THEN g1
     ELSE distribute_pot(
            deal_community_cards([g2 EXCEPT !.current_phase = PHASE_SHOWDOWN], 1),
            <<sole>>)

\* in process_player_action: the fold branch
FoldBranch(g, i) ==
  LET g1 == [g EXCEPT !.players[i + 1].is_active = FALSE]
      active == AscSeq(ActiveIdx(g1))
      g2 == reset_betting_round(g1)
      sole == [player |-> active[1],
               player_id |-> g1.players[active[1] + 1].player_id,
               hand_rank |-> 0,
               amount |-> PotTotal(g2.pots)]
  IN IF Len(active) # 1 THEN g1
     ELSE IF g2.current_phase = PHASE_SHOWDOWN
     THEN distribute_pot(g2, determine_winners(g2))
     ELSE distribute_pot([g2 EXCEPT !.current_phase = PHASE_SHOWDOWN], <<sole>>)

\* a call branch that takes the whole difference to the high bet
call_in_full(g, i) ==
  LET pl == g.players[i + 1]
      call_amount == g.current_bet - pl.current_bet
  IN IF call_amount <= 0 THEN [g EXCEPT !.error = "cannot_call"]
     ELSE add_to_pot(
            [g EXCEPT !.players[i + 1].chips = @ - call_amount,
                      !.players[i + 1].current_bet = @ + call_amount,
                      !.players[i + 1].is_all_in = @ \/ (pl.chips - call_amount = 0)],
            call_amount)

\* in process_player_action: the call branch
CallBranch(g, i) ==
  LET pl == g.players[i + 1]
      call_amount == Min(pl.chips, g.current_bet - pl.current_bet)
  IN IF call_amount <= 0 THEN [g EXCEPT !.error = "cannot_call"]
     ELSE add_to_pot(
            [g EXCEPT !.players[i + 1].chips = @ - call_amount,
                      !.players[i + 1].current_bet = @ + call_amount,
                      !.players[i + 1].is_all_in = @ \/ (pl.chips - call_amount = 0)],
            call_amount)

\* in process_player_action: "p.has_acted = False" for every other player
\* that is active and not all-in
ReopenAction(g, player_id) ==
  [g EXCEPT !.players = [k \in 1..Len(g.players) |->
      IF g.players[k].player_id # player_id /\ g.players[k].is_active
         /\ ~g.players[k].is_all_in
      THEN [g.players[k] EXCEPT !.has_acted = FALSE]
      ELSE g.players[k]]]

\* in process_player_action: the bet branch
BetBranch(g, i, amount) ==
  LET pl == g.players[i + 1]
      g1 == add_to_pot(
              [g EXCEPT !.players[i + 1].chips = @ - amount,
                        !.players[i + 1].current_bet = amount,
                        !.current_bet = amount],
              amount)
      g2 == ReopenAction(g1, pl.player_id)
  IN IF g.current_bet > 0 THEN [g EXCEPT !.error = "bet_outstanding"]
     ELSE IF amount < big_blind THEN [g EXCEPT !.error = "bet_below_big_blind"]
     ELSE IF amount > pl.chips THEN [g EXCEPT !.error = "bet_exceeds_chips"]
     ELSE [g2 EXCEPT !.players[i + 1].is_all_in = @ \/ (pl.chips - amount = 0)]

\* in process_player_action: min_raise
MinRaise(g, pl) == g.current_bet + (g.current_bet - pl.current_bet)

\* a raise branch that clamps the amount to the stack instead of raising
RaiseBranchClamped(g, i, amount) ==
  LET pl == g.players[i + 1]
      clamped == Min(amount, pl.chips + pl.current_bet)
      raise_amount == clamped - pl.current_bet
      g1 == add_to_pot(
              [g EXCEPT !.players[i + 1].chips = @ - raise_amount,
                        !.players[i + 1].current_bet = clamped,
                        !.current_bet = clamped],
              raise_amount)
      g2 == ReopenAction(g1, pl.player_id)
  IN IF g.current_bet <= 0 THEN [g EXCEPT !.error = "raise_no_bet"]
     ELSE IF amount < MinRaise(g, pl) THEN [g EXCEPT !.error = "raise_below_min"]
     ELSE [g2 EXCEPT !.players[i + 1].is_all_in = @ \/ (pl.chips - raise_amount = 0)]

\* in process_player_action: the raise branch
RaiseBranch(g, i, amount) ==
  LET pl == g.players[i + 1]
      raise_amount == amount - pl.current_bet
      g1 == add_to_pot(
              [g EXCEPT !.players[i + 1].chips = @ - raise_amount,
                        !.players[i + 1].current_bet = amount,
                        !.current_bet = amount],
              raise_amount)
      g2 == ReopenAction(g1, pl.player_id)
  IN IF g.current_bet <= 0 THEN [g EXCEPT !.error = "raise_no_bet"]
     ELSE IF amount < MinRaise(g, pl) THEN [g EXCEPT !.error = "raise_below_min"]
     ELSE IF amount > pl.chips + pl.current_bet
     THEN [g EXCEPT !.error = "raise_exceeds_chips"]
     ELSE [g2 EXCEPT !.players[i + 1].is_all_in = @ \/ (pl.chips - raise_amount = 0)]

\* in process_player_action: the all-in branch
AllInBranch(g, i) ==
  LET pl == g.players[i + 1]
      all_in_amount == pl.chips
      total_bet == pl.current_bet + all_in_amount
      g1 == IF total_bet > g.current_bet
            THEN ReopenAction([g EXCEPT !.current_bet = total_bet], pl.player_id)
            ELSE g
  IN IF all_in_amount = 0 THEN [g EXCEPT !.error = "all_in_no_chips"]
     ELSE add_to_pot(
            [g1 EXCEPT !.players[i + 1].chips = 0,
                       !.players[i + 1].current_bet = @ + all_in_amount,
                       !.players[i + 1].is_all_in = TRUE],
            all_in_amount)

\* first player of the list with the given id ("for p in self.players"),
\* None when there is none
FindPlayer(g, player_id) ==
  LET S == {i \in 0..(NumPlayers(g) - 1) : g.players[i + 1].player_id = player_id}
  IN IF S = {} THEN None ELSE CHOOSE i \in S : \A j \in S : i <= j

\* in process_player_action: "player.has_acted = True" after the branch
MarkActed(g, i) == [g EXCEPT !.players[i + 1].has_acted = TRUE]

\* in process_player_action: whether the call reaches create_side_pots
ClosesWithAllIn(g) ==
  /\ is_betting_round_complete(g)
  /\ \E k \in 1..Len(g.players) : g.players[k].is_all_in

\* in process_player_action: after the branch, mark the player and move to
\* the next player or phase
AfterAction(g, i) ==
  Only({IF ~is_betting_round_complete(g1) THEN move_to_next_active_player(g1)
        ELSE Only({advance_game_phase(g2)
                   : g2 \in {IF ClosesWithAllIn(g1) THEN create_side_pots(g1)
                             ELSE g1}})
        : g1 \in {MarkActed(g, i)}})

\* in process_player_action: the branch taken for the action name
ActionBranch(g, i, action, amount) ==
  IF action = ACTION_FOLD THEN FoldBranch(g, i)
  ELSE IF action = ACTION_CHECK
  THEN IF g.current_bet > g.players[i + 1].current_bet
       THEN [g EXCEPT !.error = "check_outstanding"] ELSE g
  ELSE IF action = ACTION_CALL THEN CallBranch(g, i)
  ELSE IF action = ACTION_BET THEN BetBranch(g, i, amount)
  ELSE IF action = ACTION_RAISE THEN RaiseBranch(g, i, amount)
  ELSE IF action = ACTION_ALL_IN THEN AllInBranch(g, i)
  ELSE [g EXCEPT !.error = "invalid_action"]

\* in process_player_action: the checks before the action is looked at;
\* the name of the error raised, "" when the call passes them
TurnError(g, player_id) ==
  LET i == FindPlayer(g, player_id)
  IN IF i = None THEN "not_found"
     ELSE IF g.active_player_index = None
             \/ g.players[g.active_player_index + 1].player_id # player_id
     THEN "not_your_turn"
     ELSE IF ~g.players[i + 1].is_active THEN "folded"
     ELSE ""

\* TexasHoldemGame.process_player_action as a function of the engine record:
\* the engine after the call; error names the ValueError it raised, if any
ProcessAction(g0, player_id, action, amount) ==
  LET g == [g0 EXCEPT !.error = "", !.winners = <<>>]
      i == FindPlayer(g, player_id)
  IN IF TurnError(g, player_id) # "" THEN [g EXCEPT !.error = TurnError(g, player_id)]
     ELSE Only({IF b.error # "" THEN b ELSE AfterAction(b, i)
                : b \in {ActionBranch(g, i, action, amount)}})

\* an entry of the dictionary get_valid_actions returns: the action name
\* with the parameters listed for it (None for a key the entry has not)
Option(action, amount, min, max) ==
  [action |-> action, amount |-> amount, min |-> min, max |-> max]

\* TexasHoldemGame.get_valid_actions: error is the 'error' entry ("" when
\* there is none), options the entries keyed by an action name
get_valid_actions(g, player_id) ==
  IF g.active_player_index = None
     \/ g.players[g.active_player_index + 1].player_id # player_id
  THEN [error |-> "Not your turn", options |-> {}]
  ELSE
    LET player == g.players[g.active_player_index + 1]
        amount_to_call == g.current_bet - player.current_bet
        min_raise == g.current_bet * 2 - player.current_bet
    IN [error |-> "",
        options |->
          {Option(ACTION_FOLD, None, None, None)}
          \cup (IF g.current_bet <= player.current_bet
                THEN {Option(ACTION_CHECK, None, None, None)} ELSE {})
          \cup (IF amount_to_call > 0
                THEN {Option(ACTION_CALL, amount_to_call, None, None)} ELSE {})
          \cup (IF player.chips > 0 /\ g.current_bet = 0
                THEN {Option(ACTION_BET, None, big_blind, player.chips)} ELSE {})
          \cup (IF player.chips > 0 /\ g.current_bet # 0
                   /\ min_raise <= player.chips
                THEN {Option(ACTION_RAISE, None, min_raise,
                             player.chips + player.current_bet)}
                ELSE {})]



-----------------------------------------------------------------------------
(* Hand setup (src/game.py)                                                *)

\* a dealer button that stays where it is after the first hand
KeepDealer(g, funded) ==
  IF g.dealer_position = None THEN 0 ELSE g.dealer_position

\* in start_new_hand: rotate the dealer position
RotateDealer(g, funded) ==
  IF g.dealer_position = None THEN 0
  ELSE FirstFrom(funded, (g.dealer_position + 1) % NumPlayers(g), NumPlayers(g))

\* TexasHoldemGame._assign_positions
assign_positions(g) ==
  LET n == NumPlayers(g)
      active_indices == {i \in 0..(n - 1) : g.players[i + 1].chips > 0}
      dealer_index == FirstFrom(active_indices, g.dealer_position, n)
      small_blind_index == FirstFrom(active_indices, (dealer_index + 1) % n, n)
      big_blind_index == FirstFrom(active_indices, (small_blind_index + 1) % n, n)
      p1 == [g.players EXCEPT ![dealer_index + 1].position = "dealer"]
      p2 == [p1 EXCEPT ![small_blind_index + 1].position = "small_blind"]
      p3 == [p2 EXCEPT ![big_blind_index + 1].position = "big_blind"]
  IN [g EXCEPT !.dealer_position = dealer_index,
               !.small_blind_position = small_blind_index,
               !.big_blind_position = big_blind_index,
               !.players = p3]

\* TexasHoldemGame._post_antes
post_antes(g) ==
  LET paid(p) == IF p.chips > 0 THEN Min(ante, p.chips) ELSE 0
  IN IF ante <= 0 THEN g
     ELSE [g EXCEPT
            !.players = [i \in 1..Len(g.players) |->
               [g.players[i] EXCEPT
                  !.chips = @ - paid(g.players[i]),
                  !.is_all_in = @ \/ (g.players[i].chips > 0
                                      /\ g.players[i].chips - paid(g.players[i]) = 0)]],
            !.pots[1].amount =
               @ + SumSeq([i \in 1..Len(g.players) |-> paid(g.players[i])])]

\* a blind posting that leaves out the big blind
post_small_blind_only(g) ==
  LET sb == g.small_blind_position + 1
  IN [g EXCEPT !.players[sb] = bet(@, small_blind),
               !.pots[1].amount = @ + bet_amount(g.players[sb], small_blind),
               !.current_bet = big_blind]

\* TexasHoldemGame._post_blinds
post_blinds(g) ==
  LET sb == g.small_blind_position + 1
      bb == g.big_blind_position + 1
      g1 == [g EXCEPT !.players[sb] = bet(@, small_blind),
                      !.pots[1].amount = @ + bet_amount(g.players[sb], small_blind)]
  IN [g1 EXCEPT !.players[bb] = bet(@, big_blind),
                !.pots[1].amount = @ + bet_amount(g1.players[bb], big_blind),
                !.current_bet = big_blind]

\* TexasHoldemGame._deal_hole_cards: two cards to every player flagged active
\* (after reset_for_new_hand that is every player), in list order
deal_hole_cards(g) ==
  LET n == NumPlayers(g)
      d == g.deck
  IN [g EXCEPT !.players = [i \in 1..n |->
                  [g.players[i] EXCEPT
                     !.cards = @ \o <<d[Len(d) - 2 * (i - 1)],
                                      d[Len(d) - 2 * (i - 1) - 1]>>]],
               !.deck = SubSeq(d, 1, Len(d) - 2 * n)]

\* TexasHoldemGame.start_new_hand, when it returns True; shuffled is the
\* deck after Deck.reset and Deck.shuffle
StartNewHand(g, shuffled) ==
  LET n == NumPlayers(g)
      active_players == AscSeq({i \in 0..(n - 1) : g.players[i + 1].chips > 0})
      g1 == [g EXCEPT
               !.deck = shuffled,
               !.community_cards = <<>>,
               !.pots = <<[amount |-> 0,
                           eligible_players |->
                              [k \in 1..Len(active_players) |->
                                 g.players[active_players[k] + 1].player_id],
                           holds_players |-> TRUE]>>,
               !.current_phase = PHASE_PREFLOP,
               !.current_bet = 0,
               !.players = [i \in 1..n |-> reset_for_new_hand(g.players[i])]]
      g2 == [g1 EXCEPT !.dealer_position = RotateDealer(g1, SeqRange(active_players))]
      g3 == deal_hole_cards(post_blinds(post_antes(assign_positions(g2))))
      first == IF Len(active_players) = 2 THEN g3.dealer_position
               ELSE FirstFrom(ActiveIdx(g3), (g3.big_blind_position + 1) % n, n)
  IN [g3 EXCEPT !.active_player_index = first, !.hands_played = @ + 1]

-----------------------------------------------------------------------------
(* The state machine                                                       *)

\* the engine's fields as one record; error and winners carry what a call
\* raises and returns
Game ==
  [players |-> players, deck |-> deck, community_cards |-> community_cards,
   pots |-> pots, current_phase |-> current_phase,
   active_player_index |-> active_player_index,
   dealer_position |-> dealer_position,
   small_blind_position |-> small_blind_position,
   big_blind_position |-> big_blind_position,
   current_bet |-> current_bet, hands_played |-> hands_played,
   last_pot_total |-> last_pot_total,
   last_pot_distribution |-> last_pot_distribution,
   error |-> "", winners |-> <<>>]

\* in get_game_state: the 'active_player' entry of the snapshot
active_player(g) ==
  IF g.active_player_index # None
  THEN g.players[g.active_player_index + 1].player_id
  ELSE None

\* Card.__str__: the rank followed by the suit
CardStr(c) == <<RankValue(c), Suit(c)>>

\* TexasHoldemGame.get_game_state: the dictionary it returns
get_game_state(g) ==
  LET pot_total == PotTotal(g.pots)
  IN [phase |-> g.current_phase,
      community_cards |-> [k \in 1..Len(g.community_cards) |->
                             CardStr(g.community_cards[k])],
      pots |-> [k \in 1..Len(g.pots) |->
                  [amount |-> g.pots[k].amount,
                   eligible_players |-> g.pots[k].eligible_players,
                   holds_players |-> g.pots[k].holds_players]],
      pot |-> IF g.current_phase = PHASE_SHOWDOWN /\ pot_total = 0
                 /\ g.last_pot_total # None
              THEN g.last_pot_total ELSE pot_total,
      current_bet |-> g.current_bet,
      active_player |-> active_player(g),
      dealer |-> g.dealer_position,
      small_blind |-> g.small_blind_position,
      big_blind |-> g.big_blind_position,
      players |-> [k \in 1..Len(g.players) |->
                     [id |-> g.players[k].player_id,
                      chips |-> g.players[k].chips,
                      current_bet |-> g.players[k].current_bet,
                      total_bet |-> g.players[k].total_bet,
                      is_active |-> g.players[k].is_active,
                      is_all_in |-> g.players[k].is_all_in,
                      position |-> g.players[k].position]]]

\* a snapshot that forgets the recorded pot total once it has been shown
snapshot_consuming(g) ==
  [engine |-> IF g.current_phase = PHASE_SHOWDOWN /\ PotTotal(g.pots) = 0
              THEN [g EXCEPT !.last_pot_total = None] ELSE g,
   result |-> get_game_state(g)]

\* a call of get_game_state: the engine after it (the method assigns no
\* attribute) and what it returned
GameStateCall(g) == [engine |-> g, result |-> get_game_state(g)]

\* a call of get_valid_actions: the engine after it (the method assigns no
\* attribute) and what it returned
ValidActionsCall(g, player_id) ==
  [engine |-> g, result |-> get_valid_actions(g, player_id)]

\* the engine's fields of a record, as the tuple gameVars
Fields(g) ==
  <<g.players, g.deck, g.community_cards, g.pots, g.current_phase,
    g.active_player_index, g.dealer_position, g.small_blind_position,
    g.big_blind_position, g.current_bet, g.hands_played,
    g.last_pot_total, g.last_pot_distribution>>

SetGame(g) ==
  /\ players' = g.players
  /\ deck' = g.deck
  /\ community_cards' = g.community_cards
  /\ pots' = g.pots
  /\ current_phase' = g.current_phase
  /\ active_player_index' = g.active_player_index
  /\ dealer_position' = g.dealer_position
  /\ small_blind_position' = g.small_blind_position
  /\ big_blind_position' = g.big_blind_position
  /\ current_bet' = g.current_bet
  /\ hands_played' = g.hands_played
  /\ last_pot_total' = g.last_pot_total
  /\ last_pot_distribution' = g.last_pot_distribution
  /\ ante' = ante

ChipsOf(ps) == SumSeq([i \in 1..Len(ps) |-> ps[i].chips])

\* the engine awaits an action
BettingPhase == current_phase \in {PHASE_PREFLOP, PHASE_FLOP, PHASE_TURN, PHASE_RIVER}

\* The betting round as a bystander would keep it: the size of the last
\* increase of the high bet (the big blind while there has been none),
\* whether a bet or raise has increased the high bet in this round, the
\* seats that have had a turn since the last bet or raise that increased the
\* high bet, and the seats that have had a turn since the action was last
\* re-opened (by a bet, a raise, or an all-in that increased the high bet by
\* at least the increment before it)
NewRound == [increment |-> big_blind, reopened |-> FALSE, turned |-> {},
             closed |-> {}]

\* the round after player_id's action: g is the engine before the call, b
\* after the branch of the action, r after the call
RoundAfter(log, g, b, r, player_id, action) ==
  IF b.error # "" THEN log
  ELSE IF r.current_phase # g.current_phase THEN NewRound
  ELSE LET d == b.current_bet - g.current_bet
       IN [increment |-> IF d > 0 THEN d ELSE log.increment,
           reopened |-> log.reopened
                          \/ (d > 0 /\ action \in {ACTION_BET, ACTION_RAISE}),
           turned |-> IF d > 0 /\ action \in {ACTION_BET, ACTION_RAISE}
                      THEN {player_id} ELSE log.turned \cup {player_id},
           closed |-> IF d > 0 /\ (action \in {ACTION_BET, ACTION_RAISE}
                                    \/ d >= log.increment)
                      THEN {player_id} ELSE log.closed \cup {player_id}]

\* in process_player_action: the engine after the branch of the action, the
\* error of the checks before it when they fail
BranchOf(g, player_id, action, amount) ==
  IF TurnError(g, player_id) # "" THEN [g EXCEPT !.error = TurnError(g, player_id)]
  ELSE ActionBranch(g, FindPlayer(g, player_id), action, amount)

\* TexasHoldemGame.__init__, called with the ante a
Construct(a) ==
  /\ players = <<>>
  /\ deck = DeckReset
  /\ community_cards = <<>>
  /\ pots = <<[amount |-> 0, eligible_players |-> <<>>, holds_players |-> FALSE]>>
  /\ current_phase = PHASE_NONE
  /\ active_player_index = None
  /\ dealer_position = None
  /\ small_blind_position = None
  /\ big_blind_position = None
  /\ current_bet = 0
  /\ hands_played = 0
  /\ last_pot_total = None
  /\ last_pot_distribution = <<>>
  /\ last = [op |-> "init", action |-> "", error |-> "", winners |-> <<>>]
  /\ pre_hand_total = 0
  /\ showdown_calls = 0
  /\ issued = {}
  /\ round_log = NewRound
  /\ burned = {}
  /\ player_connection_status = <<>>
  /\ reconnection_timeouts = <<>>
  /\ tasks = {}
  /\ sockets = {}
  /\ disconnects = 0
  /\ in_flight = <<>>
  /\ observed = <<>>
  /\ hand = {}
  /\ evaluation = <<>>
  /\ ante = a

\* TexasHoldemGame.__init__ with its defaults (no ante)
Init == Construct(0)

\* TexasHoldemGame.add_player
add_player(chips) ==
  /\ IF Len(players) >= MaxPlayers
     THEN /\ UNCHANGED <<players, issued>>
          /\ last' = [op |-> "add_player", action |-> "", error |-> "ValueError",
                      winners |-> <<>>]
     ELSE /\ players' = Append(players, NewPlayer(Len(players), chips))
          /\ issued' = issued \cup {Len(players)}
          /\ last' = [op |-> "add_player", action |-> "", error |-> "",
                      winners |-> <<>>]
  /\ UNCHANGED <<deck, community_cards, pots, current_phase, active_player_index,
                 dealer_position, small_blind_position, big_blind_position,
                 current_bet, hands_played, last_pot_total, last_pot_distribution,
                 pre_hand_total, showdown_calls, round_log, burned, serverVars,
                 evaluatorVars, ante>>

\* TexasHoldemGame.remove_player
remove_player(player_id) ==
  /\ \E i \in {FindPlayer(Game, player_id)} :
       IF i = None
       THEN /\ UNCHANGED players
            /\ last' = [op |-> "remove_player", action |-> "", error |-> "false",
                        winners |-> <<>>]
       ELSE /\ players' = SubSeq(players, 1, i) \o SubSeq(players, i + 2, Len(players))
            /\ last' = [op |-> "remove_player", action |-> "", error |-> "",
                        winners |-> <<>>]
  /\ UNCHANGED <<deck, community_cards, pots, current_phase, active_player_index,
                 dealer_position, small_blind_position, big_blind_position,
                 current_bet, hands_played, last_pot_total, last_pot_distribution,
                 pre_hand_total, showdown_calls, issued, round_log, burned,
                 serverVars, evaluatorVars, ante>>

\* TexasHoldemGame.start_new_hand
start_new_hand(shuffled) ==
  /\ UNCHANGED <<issued, serverVars, evaluatorVars>>
  /\ IF Cardinality({i \in 1..Len(players) : players[i].chips > 0}) < 2
     THEN /\ UNCHANGED <<gameVars, ante, pre_hand_total, showdown_calls, round_log,
                         burned>>
          /\ last' = [op |-> "start_new_hand", action |-> "", error |-> "false",
                      winners |-> <<>>]
     ELSE /\ \E r \in {StartNewHand(Game, shuffled)} : SetGame(r)
          /\ pre_hand_total' = ChipsOf(players)
          /\ showdown_calls' = 0
          /\ round_log' = NewRound
          /\ burned' = {}
          /\ last' = [op |-> "start_new_hand", action |-> "", error |-> "",
                      winners |-> <<>>]

Actions == {ACTION_FOLD, ACTION_CHECK, ACTION_CALL, ACTION_BET, ACTION_RAISE,
            ACTION_ALL_IN, "dance"}

\* the amounts tried with an action: only bet and raise read the amount, and
\* it is varied for the player whose turn it is
AmountsFor(player_id, action) ==
  IF /\ action \in {ACTION_BET, ACTION_RAISE}
     /\ active_player_index # None
     /\ players[active_player_index + 1].player_id = player_id
  THEN Amounts ELSE {0}

\* the player ids tried: every id a seat can have and one that none has
PlayerIds == 0..MaxPlayers

\* The cards burned in the hand as a bystander would keep them: the call
\* that deals a street first discards the top card of the deck
BurnedAfter(pile, g, r) ==
  IF Len(r.community_cards) > Len(g.community_cards) /\ Len(g.deck) > 0
  THEN pile \cup {DeckTop(g.deck)} ELSE pile

\* TexasHoldemGame.process_player_action, as the engine and its bystanders
\* see it: g0 is the engine when the call was made
player_action_from(g0, player_id, action, amount) ==
  \E g \in {g0} :
    \E r \in {ProcessAction(g, player_id, action, amount)} :
      \E counted \in {g.current_phase = PHASE_SHOWDOWN /\ Fields(r) # Fields(g)} :
         /\ counted => showdown_calls < MaxShowdownCalls
         /\ showdown_calls' = IF counted THEN showdown_calls + 1 ELSE showdown_calls
         /\ SetGame(r)
         /\ last' = IF r.error # ""
                    THEN [op |-> "process_player_action", action |-> "",
                          error |-> "ValueError", winners |-> <<>>]
                    ELSE [op |-> "process_player_action", action |-> action,
                          error |-> "", winners |-> r.winners]
         /\ \E b \in {BranchOf(g, player_id, action, amount)} :
              round_log' = RoundAfter(round_log, g, b, r, player_id, action)
         /\ burned' = BurnedAfter(burned, g, r)
         /\ UNCHANGED <<pre_hand_total, issued>>

\* TexasHoldemGame.process_player_action, called on the engine as it is
game_process_player_action(player_id, action, amount) ==
  player_action_from(Game, player_id, action, amount)

\* TexasHoldemGame.process_player_action
process_player_action(player_id, action, amount) ==
  /\ game_process_player_action(player_id, action, amount)
  /\ UNCHANGED <<serverVars, evaluatorVars>>

Next ==
  \/ \E chips \in BuyIns(Len(players)) : add_player(chips)
  \/ /\ hands_played < MaxHands
     /\ \E shuffled \in Shuffles : start_new_hand(shuffled)
  \/ \E player_id \in PlayerIds, action \in Actions :
       \E amount \in AmountsFor(player_id, action) :
          process_player_action(player_id, action, amount)

Spec == Init /\ [][Next]_vars

(* A session of several hands: the seats join before the first hand, a hand  *)
(* is started when none is being played, and the seat to act folds, checks,  *)
(* calls or goes all-in.                                                     *)

SessionActions == {ACTION_FOLD, ACTION_CHECK, ACTION_CALL, ACTION_ALL_IN}

SessionNext ==
  \/ /\ current_phase = PHASE_NONE
     /\ \E chips \in BuyIns(Len(players)) : add_player(chips)
  \/ /\ current_phase \in {PHASE_NONE, PHASE_SHOWDOWN}
     /\ hands_played < MaxSessionHands
     /\ \E shuffled \in Shuffles : start_new_hand(shuffled)
  \/ /\ current_phase \in {PHASE_PREFLOP, PHASE_FLOP, PHASE_TURN, PHASE_RIVER}
     /\ \E action \in SessionActions :
          process_player_action(active_player(Game), action, 0)

SessionSpec == Init /\ [][SessionNext]_vars

(* Seating: players join and leave a table on which no hand is started.     *)

\* chip counts a joining player may bring while the table is being seated
SeatingBuyIns == {3, 5}

SeatingNext ==
  \/ \E chips \in SeatingBuyIns : add_player(chips)
  \/ \E player_id \in PlayerIds : remove_player(player_id)

SeatingSpec == Init /\ [][SeatingNext]_vars

(* A hand that seats may leave: the seats join before the hand, the seat to  *)
(* act folds, checks, calls or goes all-in, and remove_player is called for  *)
(* any id while the hand is being played.  process_player_action is called    *)
(* while active_player_index is an index of the player list.                  *)

LeavingNext ==
  \/ /\ current_phase = PHASE_NONE
     /\ \E chips \in BuyIns(Len(players)) : add_player(chips)
  \/ /\ current_phase = PHASE_NONE
     /\ hands_played < MaxHands
     /\ \E shuffled \in Shuffles : start_new_hand(shuffled)
  \/ /\ current_phase \in {PHASE_PREFLOP, PHASE_FLOP, PHASE_TURN, PHASE_RIVER}
     /\ active_player_index < Len(players)
     /\ \E action \in SessionActions :
          process_player_action(active_player(Game), action, 0)
  \/ /\ current_phase \in {PHASE_PREFLOP, PHASE_FLOP, PHASE_TURN, PHASE_RIVER}
     /\ \E player_id \in PlayerIds : remove_player(player_id)

LeavingSpec == Init /\ [][LeavingNext]_vars

(* A session in which start_new_hand is called whatever the phase: before   *)
(* the first hand, after a hand, and while a hand is being played.          *)

RestartNext ==
  \/ /\ current_phase = PHASE_NONE
     /\ \E chips \in BuyIns(Len(players)) : add_player(chips)
  \/ /\ hands_played < MaxSessionHands
     /\ \E shuffled \in Shuffles : start_new_hand(shuffled)
  \/ /\ current_phase \in {PHASE_PREFLOP, PHASE_FLOP, PHASE_TURN, PHASE_RIVER}
     /\ \E action \in SessionActions :
          process_player_action(active_player(Game), action, 0)

RestartSpec == Init /\ [][RestartNext]_vars

(* A session on a table constructed with an ante: the seats join before the *)
(* first hand with a stack that the ante exhausts or that covers the blinds, *)
(* a hand is started when none is being played, and the seat to act folds,   *)
(* checks, calls or goes all-in.                                             *)

AnteInit == Construct(TableAnte)

AnteNext ==
  \/ /\ current_phase = PHASE_NONE
     /\ \E chips \in AnteStacks : add_player(chips)
  \/ /\ current_phase \in {PHASE_NONE, PHASE_SHOWDOWN}
     /\ hands_played < MaxSessionHands
     /\ \E shuffled \in AnteShuffles : start_new_hand(shuffled)
  \/ /\ current_phase \in {PHASE_PREFLOP, PHASE_FLOP, PHASE_TURN, PHASE_RIVER}
     /\ \E action \in SessionActions :
          process_player_action(active_player(Game), action, 0)

AnteSpec == AnteInit /\ [][AnteNext]_vars

-----------------------------------------------------------------------------
(* The server (src/server.py): one table, its WebSocket connections and its  *)
(* disconnect timeouts.  The handlers below run on the event loop, one at a  *)
(* time between two awaits.                                                   *)

\* a dictionary with key k set to v, and with key k deleted
Put(dict, k, v) == [q \in (DOMAIN dict) \cup {k} |-> IF q = k THEN v ELSE dict[q]]
Drop(dict, k) == [q \in (DOMAIN dict) \ {k} |-> dict[q]]

\* the ids of the seats of the table
Seated == {players[k].player_id : k \in 1..Len(players)}

engineVars == <<gameVars, last, pre_hand_total, showdown_calls, issued, round_log,
                burned, ante>>

\* websocket_endpoint up to its first await: the client is registered, the
\* player is marked connected and its pending timeout is cancelled.  A seat
\* keeps one socket open at a time.
websocket_connect(player_id) ==
  /\ player_id \in Seated
  /\ player_id \notin sockets
  /\ sockets' = sockets \cup {player_id}
  /\ player_connection_status' = Put(player_connection_status, player_id, TRUE)
  /\ IF player_id \in DOMAIN reconnection_timeouts
     THEN /\ tasks' = {t \in tasks : t.serial # reconnection_timeouts[player_id]}
          /\ reconnection_timeouts' = Drop(reconnection_timeouts, player_id)
     ELSE UNCHANGED <<tasks, reconnection_timeouts>>
  /\ UNCHANGED <<engineVars, disconnects, in_flight, observed, evaluatorVars>>

\* websocket_endpoint, the WebSocketDisconnect handler: the player is marked
\* disconnected and a handle_player_timeout task is created for it
websocket_disconnect(player_id) ==
  /\ player_id \in sockets
  /\ disconnects < MaxDisconnects
  /\ sockets' = sockets \ {player_id}
  /\ player_connection_status' = Put(player_connection_status, player_id, FALSE)
  /\ tasks' = tasks \cup {[serial |-> disconnects, player_id |-> player_id,
                           reconnected |-> FALSE]}
  /\ reconnection_timeouts' = Put(reconnection_timeouts, player_id, disconnects)
  /\ disconnects' = disconnects + 1
  /\ UNCHANGED <<engineVars, in_flight, observed, evaluatorVars>>

\* in handle_player_timeout: the test made when the sleep is over
TimeoutFolds(status, g, player_id) ==
  /\ player_id \in DOMAIN status
  /\ ~status[player_id]
  /\ get_game_state(g).active_player = player_id

\* the timers of the server: the timeout tasks and the sockets whose closing
\* creates them
timerVars == <<tasks, sockets>>

\* in handle_player_timeout: asyncio.sleep(RECONNECTION_TIMEOUT) returns in a
\* task that was not cancelled
sleep_over(t) ==
  /\ t \in tasks
  /\ tasks' = tasks \ {t}
  /\ sockets' = sockets

\* handle_player_timeout from the end of its sleep: the fold on the player's
\* behalf (a ValueError is swallowed) and the clean-up of the finally clause
handle_player_timeout(t) ==
  /\ sleep_over(t)
  /\ reconnection_timeouts' = Drop(reconnection_timeouts, t.player_id)
  /\ IF TimeoutFolds(player_connection_status, Game, t.player_id)
     THEN game_process_player_action(t.player_id, ACTION_FOLD, 0)
     ELSE UNCHANGED engineVars
  /\ UNCHANGED <<player_connection_status, disconnects, in_flight, observed,
                 evaluatorVars>>

\* reconnect_player: it looks the player up and answers; reconnected, the
\* mark a bystander puts on the timeouts pending for the player, is all that
\* changes
reconnect_player(player_id) ==
  /\ player_id \in Seated
  /\ tasks' = {IF t.player_id = player_id THEN [t EXCEPT !.reconnected = TRUE] ELSE t
               : t \in tasks}
  /\ UNCHANGED <<engineVars, player_connection_status, reconnection_timeouts,
                 sockets, disconnects, in_flight, observed, evaluatorVars>>

\* the endpoints join_game, start_game and player_action call add_player,
\* start_new_hand and process_player_action; the seats join before the hand
\* and the seat to act folds, checks, calls or goes all-in
ServerNext ==
  \/ /\ current_phase = PHASE_NONE
     /\ \E chips \in BuyIns(Len(players)) : add_player(chips)
  \/ /\ current_phase = PHASE_NONE
     /\ Len(players) >= 2
     /\ hands_played < MaxHands
     /\ \E shuffled \in Shuffles : start_new_hand(shuffled)
  \/ /\ BettingPhase
     /\ \E action \in SessionActions :
          process_player_action(active_player(Game), action, 0)
  \/ \E player_id \in PlayerIds : websocket_connect(player_id)
  \/ \E player_id \in PlayerIds : websocket_disconnect(player_id)
  \/ \E player_id \in PlayerIds : reconnect_player(player_id)
  \/ \E t \in tasks : handle_player_timeout(t)

\* the event loop resumes a timeout task when its sleep is over: a task does
\* not stay pending for ever
ServerSpec ==
  Init /\ [][ServerNext]_vars /\ WF_timerVars(\E t \in tasks : sleep_over(t))

(* The reads of the table. player_action is a coroutine and calls           *)
(* process_player_action on the event loop; get_game_state and              *)
(* admin_get_game_state are plain functions, which the framework runs in a  *)
(* thread of its pool, so a read can run between any two steps of a call    *)
(* that the event loop is making. The call is taken at one such place: when *)
(* the branch of the action has been applied and the player is not yet      *)
(* marked and the turn not yet moved.                                       *)

\* a response that lists every seat's cards
response_with_all_cards(g, player_id) ==
  [player_id |-> player_id,
   phase |-> get_game_state(g).phase,
   community_cards |-> get_game_state(g).community_cards,
   pot |-> PotTotal(g.pots),
   current_bet |-> g.current_bet,
   active_player |-> active_player(g),
   dealer |-> g.dealer_position,
   small_blind |-> g.small_blind_position,
   big_blind |-> g.big_blind_position,
   your_cards |-> <<>>,
   players |-> [k \in 1..Len(g.players) |->
                  [id |-> g.players[k].player_id,
                   chips |-> g.players[k].chips,
                   current_bet |-> g.players[k].current_bet,
                   is_active |-> g.players[k].is_active,
                   is_all_in |-> g.players[k].is_all_in,
                   position |-> g.players[k].position,
                   cards |-> [c \in 1..Len(g.players[k].cards) |->
                                CardStr(g.players[k].cards[c])]]],
   valid_actions |-> {}]

\* create_game_state_response: the response for player_id (None for a
\* spectator); a list or dictionary the response has not is empty
create_game_state_response(g, player_id) ==
  LET game_state == get_game_state(g)
      seat == FindPlayer(g, player_id)
      player_cards ==
        IF player_id # None /\ seat # None
        THEN [k \in 1..Len(g.players[seat + 1].cards) |->
                CardStr(g.players[seat + 1].cards[k])]
        ELSE <<>>
  IN [player_id |-> player_id,
      phase |-> game_state.phase,
      community_cards |-> game_state.community_cards,
      pot |-> PotTotal(g.pots),
      current_bet |-> game_state.current_bet,
      active_player |-> game_state.active_player,
      dealer |-> game_state.dealer,
      small_blind |-> game_state.small_blind,
      big_blind |-> game_state.big_blind,
      your_cards |-> IF player_id # None THEN player_cards ELSE <<>>,
      players |-> [k \in 1..Len(game_state.players) |->
                     [id |-> game_state.players[k].id,
                      chips |-> game_state.players[k].chips,
                      current_bet |-> game_state.players[k].current_bet,
                      is_active |-> game_state.players[k].is_active,
                      is_all_in |-> game_state.players[k].is_all_in,
                      position |-> game_state.players[k].position,
                      cards |-> IF player_id # None
                                   /\ game_state.players[k].id = player_id
                                THEN player_cards ELSE <<>>]],
      valid_actions |-> IF player_id # None
                           /\ game_state.active_player = player_id
                        THEN get_valid_actions(g, player_id).options
                        ELSE {}]

\* admin_get_game_state: the state with every player's cards
admin_get_game_state(g) ==
  LET game_state == get_game_state(g)
  IN [phase |-> game_state.phase,
      community_cards |-> [k \in 1..Len(g.community_cards) |->
                             CardStr(g.community_cards[k])],
      pot |-> PotTotal(g.pots),
      current_bet |-> game_state.current_bet,
      active_player |-> game_state.active_player,
      players |-> [k \in 1..Len(g.players) |->
                     [id |-> g.players[k].player_id,
                      chips |-> g.players[k].chips,
                      current_bet |-> g.players[k].current_bet,
                      is_active |-> g.players[k].is_active,
                      is_all_in |-> g.players[k].is_all_in,
                      cards |-> [c \in 1..Len(g.players[k].cards) |->
                                   CardStr(g.players[k].cards[c])]]],
      dealer |-> game_state.dealer,
      small_blind |-> game_state.small_blind,
      big_blind |-> game_state.big_blind]

\* what the two endpoints answer for the engine g
Responses(g) ==
  {[endpoint |-> "get_game_state",
    response |-> create_game_state_response(g, player_id)]
   : player_id \in {None} \cup {g.players[k].player_id : k \in 1..Len(g.players)}}
  \cup {[endpoint |-> "admin_get_game_state", response |-> admin_get_game_state(g)]}

\* join_game and start_game while no call of process_player_action is being
\* made
read_add_player(chips) ==
  /\ in_flight = <<>>
  /\ add_player(chips)

read_start_new_hand(shuffled) ==
  /\ in_flight = <<>>
  /\ start_new_hand(shuffled)

\* player_action, a call of process_player_action that raises in its checks
\* or in the branch of the action
rejected_player_action(player_id, action, amount) ==
  /\ in_flight = <<>>
  /\ BranchOf(Game, player_id, action, amount).error # ""
  /\ game_process_player_action(player_id, action, amount)
  /\ observed' = <<>>
  /\ UNCHANGED <<player_connection_status, reconnection_timeouts, tasks, sockets,
                 disconnects, in_flight, evaluatorVars>>

\* player_action, the call of process_player_action up to the end of the
\* branch of the action
begin_player_action(player_id, action, amount) ==
  /\ in_flight = <<>>
  /\ \E b \in {BranchOf(Game, player_id, action, amount)} :
       /\ b.error = ""
       /\ SetGame(b)
  /\ in_flight' = <<[before |-> Game, player_id |-> player_id, action |-> action,
                     amount |-> amount]>>
  /\ observed' = <<>>
  /\ UNCHANGED <<last, pre_hand_total, showdown_calls, issued, round_log, burned,
                 player_connection_status, reconnection_timeouts, tasks, sockets,
                 disconnects, evaluatorVars>>

\* player_action, the rest of the call of process_player_action
end_player_action ==
  /\ in_flight # <<>>
  /\ player_action_from(in_flight[1].before, in_flight[1].player_id,
                        in_flight[1].action, in_flight[1].amount)
  /\ in_flight' = <<>>
  /\ observed' = <<>>
  /\ UNCHANGED <<player_connection_status, reconnection_timeouts, tasks, sockets,
                 disconnects, evaluatorVars>>

\* get_game_state and admin_get_game_state, the endpoints: the response is
\* made from the engine as the thread finds it
read_game_state(player_id) ==
  /\ observed' = <<[endpoint |-> "get_game_state",
                    response |-> create_game_state_response(Game, player_id)]>>
  /\ UNCHANGED <<engineVars, player_connection_status, reconnection_timeouts,
                 tasks, sockets, disconnects, in_flight, evaluatorVars>>

read_admin_game_state ==
  /\ observed' = <<[endpoint |-> "admin_get_game_state",
                    response |-> admin_get_game_state(Game)]>>
  /\ UNCHANGED <<engineVars, player_connection_status, reconnection_timeouts,
                 tasks, sockets, disconnects, in_flight, evaluatorVars>>

ReadNext ==
  \/ /\ current_phase = PHASE_NONE
     /\ \E chips \in BuyIns(Len(players)) : read_add_player(chips)
  \/ /\ current_phase = PHASE_NONE
     /\ Len(players) >= 2
     /\ hands_played < MaxHands
     /\ \E shuffled \in Shuffles : read_start_new_hand(shuffled)
  \/ /\ BettingPhase
     /\ \E action \in SessionActions :
          rejected_player_action(active_player(Game), action, 0)
  \/ /\ BettingPhase
     /\ \E action \in SessionActions :
          begin_player_action(active_player(Game), action, 0)
  \/ end_player_action
  \/ \E player_id \in {None} \cup Seated : read_game_state(player_id)
  \/ read_admin_game_state

ReadSpec == Init /\ [][ReadNext]_vars

(* The evaluator given five cards of consecutive ranks, the ace counting    *)
(* below the two or above the king.                                         *)

\* the ranks of the straight that starts at low; the ace is below the two
\* when low is -1
StraightRanks(low) == IF low = 0 - 1 THEN {12, 0, 1, 2, 3} ELSE low..(low + 4)

\* Card(suit, rank) for the ranks of a straight: the cards are of one suit,
\* but for the card of the rank low + 4, which is of the suit top
StraightCards(low, suit, top) ==
  {Card(IF rank = low + 4 THEN top ELSE suit, rank) : rank \in StraightRanks(low)}

StraightHands ==
  {StraightCards(low, suit, top) : low \in (0 - 1)..8, suit \in 0..3, top \in 0..3}

\* HandEvaluator._evaluate_five_card_hand called with the hand h
evaluate_five_card_hand(h) ==
  /\ hand' = h
  /\ evaluation' = <<EvaluateFiveCardHand(h)>>
  /\ UNCHANGED <<engineVars, serverVars>>

EvaluatorNext == \E h \in StraightHands : evaluate_five_card_hand(h)

EvaluatorSpec == Init /\ [][EvaluatorNext]_vars

(* Scenario S5 and the betting rounds around it: four seats with equal      *)
(* stacks start a hand, and before the flop the seat to act folds, checks,  *)
(* calls, or bets or raises to three or nine big blinds.                    *)

S5Seats == 4

S5Stack == 100 * big_blind

S5Amounts == {3 * big_blind, 9 * big_blind}

S5Actions == {ACTION_FOLD, ACTION_CHECK, ACTION_CALL, ACTION_BET, ACTION_RAISE}

\* the table after __init__ and four add_player calls
S5Init ==
  /\ players = [i \in 1..S5Seats |-> NewPlayer(i - 1, S5Stack)]
  /\ deck = DeckReset
  /\ community_cards = <<>>
  /\ pots = <<[amount |-> 0, eligible_players |-> <<>>, holds_players |-> FALSE]>>
  /\ current_phase = PHASE_NONE
  /\ active_player_index = None
  /\ dealer_position = None
  /\ small_blind_position = None
  /\ big_blind_position = None
  /\ current_bet = 0
  /\ hands_played = 0
  /\ last_pot_total = None
  /\ last_pot_distribution = <<>>
  /\ last = [op |-> "add_player", action |-> "", error |-> "", winners |-> <<>>]
  /\ pre_hand_total = 0
  /\ showdown_calls = 0
  /\ issued = 0..(S5Seats - 1)
  /\ round_log = NewRound
  /\ burned = {}
  /\ player_connection_status = <<>>
  /\ reconnection_timeouts = <<>>
  /\ tasks = {}
  /\ sockets = {}
  /\ disconnects = 0
  /\ in_flight = <<>>
  /\ observed = <<>>
  /\ hand = {}
  /\ evaluation = <<>>
  /\ ante = 0

S5Next ==
  \/ /\ hands_played < MaxHands
     /\ \E shuffled \in Shuffles : start_new_hand(shuffled)
  \/ /\ current_phase = PHASE_PREFLOP
     /\ \E action \in S5Actions, amount \in S5Amounts :
          process_player_action(active_player(Game), action, amount)

S5Spec == S5Init /\ [][S5Next]_vars

-----------------------------------------------------------------------------
(* Properties                                                              *)

\* the last call was a process_player_action that returned normally
Accepted == last.op = "process_player_action" /\ last.error = ""

\* every seat at the table was dealt into the hand (nobody joined after
\* start_new_hand)
NoJoiner == \A k \in 1..Len(players) : Len(players[k].cards) = 2

\* the seats (positions in the player list) that have not folded
NonFolded(ps) == {k \in 1..Len(ps) : ps[k].is_active}

\* total of the pots whose eligible list names the seat
PotsFor(id, ps) ==
  SumSeq([j \in 1..Len(ps) |->
            IF id \in SeqRange(ps[j].eligible_players) THEN ps[j].amount ELSE 0])

\* the inputs process_player_action is called with
Inputs == PlayerIds \X Actions \X Amounts

\* C1 -- Chip conservation: after every accepted process_player_action of a
\* hand, the seats' chips plus the pot amounts equal the seats' chips just
\* before start_new_hand (so the chips alone equal it once the pots are
\* emptied by distribution).
C1_ChipConservation ==
  (Accepted /\ NoJoiner) =>
     ChipsOf(players) + PotTotal(pots) = pre_hand_total

\* C2 -- Fold-out award: an accepted fold that leaves exactly one non-folded
\* seat puts the phase to showdown, raises that seat's chips by the total of
\* the pots it is eligible for, and leaves every pot amount 0.
C2_FoldOutAward ==
  [][(/\ last'.op = "process_player_action"
      /\ last'.error = ""
      /\ last'.action = ACTION_FOLD
      /\ current_phase # PHASE_SHOWDOWN
      /\ Cardinality(NonFolded(players')) = 1)
     => \A w \in NonFolded(players') :
          /\ current_phase' = PHASE_SHOWDOWN
          /\ players'[w].chips
               = players[w].chips + PotsFor(players[w].player_id, pots)
          /\ \A j \in 1..Len(pots') : pots'[j].amount = 0]_vars

\* the seats whose hands are compared at a showdown
Contenders == {k \in NonFolded(players) : Len(players[k].cards) = 2}

\* (category, tiebreak key) of a seat's best five cards
HandOf(k) == BestFiveCardHand(players[k].cards \o community_cards)

\* the last call ended the hand by comparing hands
EvaluatedShowdown ==
  /\ Accepted
  /\ current_phase = PHASE_SHOWDOWN
  /\ last.winners # <<>>
  /\ Cardinality(NonFolded(players)) >= 2
  /\ Len(community_cards) >= 3

\* C3 -- Showdown winner selection is lexicographic on (category, tiebreak
\* key): no winner is beaten by another non-folded seat on category or, at
\* the same category, on the key, and two winners have the same category and
\* the same key.
C3_LexicographicWinners ==
  EvaluatedShowdown =>
    \A n \in 1..Len(last.winners) :
      LET w == last.winners[n].player + 1
      IN /\ \A k \in Contenders : ~HandBetter(HandOf(k), HandOf(w))
         /\ \A m \in 1..Len(last.winners) :
              HandOf(last.winners[m].player + 1) = HandOf(w)

\* C4 -- Per-pot award: at a distribution over several pots every pot with a
\* positive amount is paid out in full, a side pot the best hand is not
\* eligible for going to the best of its own eligible seats; so what the
\* winners are paid adds up to what the pots held.
C4_PerPotAward ==
  (EvaluatedShowdown /\ Len(pots) >= 2) =>
     SumSeq([n \in 1..Len(last.winners) |-> last.winners[n].amount])
       = last_pot_total

\* the state in which process_player_action calls create_side_pots
AtSidePots(g, player_id, action, amount) ==
  MarkActed(ActionBranch(g, FindPlayer(g, player_id), action, amount),
            FindPlayer(g, player_id))

\* process_player_action with these inputs reaches create_side_pots before
\* the flop, with a non-folded seat all-in
RunsSidePots(g, player_id, action, amount) ==
  /\ g.current_phase = PHASE_PREFLOP
  /\ TurnError(g, player_id) = ""
  /\ ActionBranch(g, FindPlayer(g, player_id), action, amount).error = ""
  /\ ClosesWithAllIn(AtSidePots(g, player_id, action, amount))
  /\ AtSidePots(g, player_id, action, amount).current_phase = PHASE_PREFLOP
  /\ \E k \in NonFolded(AtSidePots(g, player_id, action, amount).players) :
        AtSidePots(g, player_id, action, amount).players[k].is_all_in

\* sum over all seats of min(contribution, t); before the flop and without
\* antes a seat's contribution to the hand is its current_bet
Capped(ps, t) == SumSeq([k \in 1..Len(ps) |-> Min(ps[k].current_bet, t)])

\* the all-in totals of the non-folded seats
AllInTotals(ps) == {ps[k].current_bet : k \in {j \in NonFolded(ps) : ps[j].is_all_in}}

\* the largest all-in total below t, 0 when there is none
PreviousLevel(ps, t) ==
  LET below == {u \in AllInTotals(ps) : u < t}
  IN IF below = {} THEN 0 ELSE CHOOSE u \in below : \A v \in below : v <= u

\* C5 -- Side-pot computation: when create_side_pots runs at the close of a
\* betting round, for every all-in total t there is a pot whose amount is
\* the sum over the seats of min(contribution, t) minus the same sum at the
\* previous level and whose eligible seats are the non-folded seats that
\* contributed at least t, and the pots add up to the contributions.
C5_SidePotComputation ==
  \A in \in Inputs :
    RunsSidePots(Game, in[1], in[2], in[3]) =>
      LET at == AtSidePots(Game, in[1], in[2], in[3])
          made == create_side_pots(at).pots
      IN /\ \A t \in AllInTotals(at.players) :
              \E j \in 1..Len(made) :
                 /\ made[j].amount
                      = Capped(at.players, t)
                          - Capped(at.players, PreviousLevel(at.players, t))
                 /\ SeqRange(made[j].eligible_players)
                      = {at.players[k].player_id :
                           k \in {q \in NonFolded(at.players) :
                                    at.players[q].current_bet >= t}}
         /\ PotTotal(made) = SumSeq([k \in 1..Len(at.players) |->
                                       at.players[k].current_bet])

\* C6 -- Pot nesting: for any two pots at positions i < j of the pot list,
\* the eligible set of pot j is a subset of the eligible set of pot i.
C6_PotNesting ==
  \A i \in 1..Len(pots), j \in 1..Len(pots) :
    i < j => SeqRange(pots[j].eligible_players)
               \subseteq SeqRange(pots[i].eligible_players)

\* a betting round goes on with a side pot that holds money and excludes a
\* seat of the main pot
C6_Witness ==
  /\ current_phase \in {PHASE_FLOP, PHASE_TURN, PHASE_RIVER}
  /\ Len(pots) >= 2
  /\ pots[2].amount > 0
  /\ SeqRange(pots[2].eligible_players) # SeqRange(pots[1].eligible_players)
  /\ SeqRange(pots[2].eligible_players) # {}

\* C7 -- No partial mutation: whatever the seat, the action name and the
\* amount, a process_player_action that signals an error leaves every field
\* of the game as it was before the call.
C7_NoPartialMutation ==
  \A in \in Inputs :
    \A r \in {ProcessAction(Game, in[1], in[2], in[3])} :
      r.error # "" => Fields(r) = Fields(Game)

\* C8 -- WrongPhase: while the phase is none or showdown, every
\* process_player_action, by any seat with any action, is rejected and
\* changes no state.
C8_WrongPhase ==
  current_phase \in {PHASE_NONE, PHASE_SHOWDOWN} =>
    \A in \in Inputs :
      \A r \in {ProcessAction(Game, in[1], in[2], in[3])} :
        r.error # "" /\ Fields(r) = Fields(Game)

\* C9 -- To-act marking: while the phase is showdown or no hand is in
\* progress no seat is reported as to-act, and while the engine awaits an
\* action exactly one seat is.
C9_ToActMarking ==
  /\ current_phase \in {PHASE_NONE, PHASE_SHOWDOWN} => active_player(Game) = None
  /\ current_phase \in {PHASE_PREFLOP, PHASE_FLOP, PHASE_TURN, PHASE_RIVER} =>
       Cardinality({k \in 1..Len(players) :
                      players[k].player_id = active_player(Game)}) = 1

\* the call is one of the illegal actions: by a seat that does not exist or
\* is not to act, or by the seat to act (chips c, contribution r, high bet h)
\* a check while h > r, a call while h <= r, a bet while h > 0, below the big
\* blind or above c, a raise while h = 0, below min_raise or to more than
\* c + r, an all-in with c = 0, an unknown action name
IllegalAction(g, player_id, action, amount) ==
  \/ FindPlayer(g, player_id) = None
  \/ active_player(g) # player_id
  \/ LET pl == g.players[g.active_player_index + 1]
         h == g.current_bet
     IN \/ action = ACTION_CHECK /\ h > pl.current_bet
        \/ action = ACTION_CALL /\ h <= pl.current_bet
        \/ action = ACTION_BET
             /\ (h > 0 \/ amount < big_blind \/ amount > pl.chips)
        \/ action = ACTION_RAISE
             /\ (h = 0 \/ amount < MinRaise(g, pl)
                 \/ amount > pl.chips + pl.current_bet)
        \/ action = ACTION_ALL_IN /\ pl.chips = 0
        \/ action \notin {ACTION_FOLD, ACTION_CHECK, ACTION_CALL, ACTION_BET,
                          ACTION_RAISE, ACTION_ALL_IN}

OfferedActions == {ACTION_FOLD, ACTION_CHECK, ACTION_CALL, ACTION_BET,
                   ACTION_RAISE, ACTION_ALL_IN}

\* get_valid_actions lists the action, with x inside the listed range when
\* the action carries an amount
Listed(valid, action, x) ==
  \E o \in valid.options :
     /\ o.action = action
     /\ action \in {ACTION_BET, ACTION_RAISE} => (o.min <= x /\ x <= o.max)

\* C11 -- Legal-action set agrees with Act: in every betting state an action
\* of the seat to act is accepted by process_player_action exactly when
\* get_valid_actions lists it (bet and raise with the amount inside the
\* listed range), all-in is listed exactly when the seat has chips, the call
\* amount listed is min(c, h - r), and a seat that is not to act is listed
\* no action.
C11_LegalActionsAgree ==
  BettingPhase =>
    \A id \in PlayerIds :
      \A valid \in {get_valid_actions(Game, id)} :
        IF active_player(Game) = id
        THEN LET pl == players[active_player_index + 1]
             IN /\ \A action \in OfferedActions, x \in Amounts :
                     (ProcessAction(Game, id, action, x).error = "")
                        <=> Listed(valid, action, x)
                /\ Listed(valid, ACTION_ALL_IN, 0) <=> pl.chips > 0
                /\ \A o \in valid.options :
                     o.action = ACTION_CALL =>
                        o.amount = Min(pl.chips, current_bet - pl.current_bet)
        ELSE valid.options = {}

\* C12 -- Community-card count matches phase in every reachable state: 0
\* cards in pre_flop, 3 in flop, 4 in turn, 5 in river and 5 in showdown.
C12_CommunityCount ==
  /\ current_phase = PHASE_PREFLOP => Len(community_cards) = 0
  /\ current_phase = PHASE_FLOP => Len(community_cards) = 3
  /\ current_phase = PHASE_TURN => Len(community_cards) = 4
  /\ current_phase = PHASE_RIVER => Len(community_cards) = 5
  /\ current_phase = PHASE_SHOWDOWN => Len(community_cards) = 5

\* the seats (positions in the player list) that hold chips
Funded(ps) == {k \in 1..Len(ps) : ps[k].chips > 0}

\* the step is a start_new_hand that returned True
StartsHand == last'.op = "start_new_hand" /\ last'.error = ""

\* C13 -- Heads-up rule: after a start_new_hand with exactly two funded seats
\* the dealer seat is the small blind and has posted the small blind, the
\* other funded seat is the big blind and has posted the big blind, and the
\* first seat to act before the flop is the dealer.
C13_HeadsUp ==
  [][(StartsHand /\ Cardinality(Funded(players)) = 2)
     => /\ small_blind_position' = dealer_position'
        /\ players'[dealer_position' + 1].current_bet
             = Min(small_blind, players[dealer_position' + 1].chips)
        /\ big_blind_position' # dealer_position'
        /\ big_blind_position' + 1 \in Funded(players)
        /\ players'[big_blind_position' + 1].current_bet
             = Min(big_blind, players[big_blind_position' + 1].chips)
        /\ active_player_index' = dealer_position']_vars

\* C14 -- Hand setup: after a successful start_new_hand with three or more
\* seats that each hold more than the big blind, and no ante, the phase is
\* pre_flop, there are no community cards, there is exactly one pot and it
\* holds small_blind + big_blind, the high bet is the big blind, the dealer,
\* small-blind and big-blind seats are three distinct seats in clockwise
\* order carrying the matching position labels, the seat to act is the seat
\* after the big blind, and every seat holds exactly two hole cards.
C14_HandSetup ==
  [][(/\ StartsHand
      /\ Len(players) >= 3
      /\ \A k \in 1..Len(players) : players[k].chips > big_blind
      /\ ante = 0)
     => /\ current_phase' = PHASE_PREFLOP
        /\ community_cards' = <<>>
        /\ Len(pots') = 1
        /\ pots'[1].amount = small_blind + big_blind
        /\ current_bet' = big_blind
        /\ Cardinality({dealer_position', small_blind_position',
                        big_blind_position'}) = 3
        /\ small_blind_position' = (dealer_position' + 1) % Len(players)
        /\ big_blind_position' = (small_blind_position' + 1) % Len(players)
        /\ players'[dealer_position' + 1].position = "dealer"
        /\ players'[small_blind_position' + 1].position = "small_blind"
        /\ players'[big_blind_position' + 1].position = "big_blind"
        /\ active_player_index' = (big_blind_position' + 1) % Len(players)
        /\ \A k \in 1..Len(players') : Len(players'[k].cards) = 2]_vars

\* a second or later hand has just been set up at a table of three seats
\* that each held more than the big blind, with the blinds posted
C14_Witness ==
  /\ last.op = "start_new_hand"
  /\ last.error = ""
  /\ hands_played >= 2
  /\ Len(players) >= 3
  /\ \A k \in 1..Len(players) : players[k].chips + players[k].current_bet > big_blind
  /\ players[small_blind_position + 1].current_bet = small_blind
  /\ players[big_blind_position + 1].current_bet = big_blind

\* the next seat clockwise after seat `from` (0-based) that holds chips
NextFunded(ps, from) ==
  LET n == Len(ps)
      k == CHOOSE k \in 1..n :
             /\ ps[((from + k) % n) + 1].chips > 0
             /\ \A j \in 1..(k - 1) : ps[((from + j) % n) + 1].chips = 0
  IN (from + k) % n

\* C15 -- Dealer-button rotation: on the first hand the dealer is seat 0; on
\* every later start_new_hand the dealer moves to the next seat clockwise
\* that has chips, and the small blind and the big blind follow it; with all
\* seats funded each of the three positions advances by exactly one seat,
\* and none of the three is a seat without chips.
C15_ButtonRotation ==
  [][StartsHand
     => /\ hands_played = 0 => dealer_position' = 0
        /\ hands_played > 0
             => dealer_position' = NextFunded(players, dealer_position)
        /\ small_blind_position' = NextFunded(players, dealer_position')
        /\ big_blind_position' = NextFunded(players, small_blind_position')
        /\ \A i \in {dealer_position', small_blind_position', big_blind_position'} :
              players[i + 1].chips > 0
        /\ (hands_played > 0 /\ Funded(players) = 1..Len(players))
             => /\ dealer_position' = (dealer_position + 1) % Len(players)
                /\ small_blind_position'
                     = (small_blind_position + 1) % Len(players)
                /\ big_blind_position'
                     = (big_blind_position + 1) % Len(players)]_vars

\* the second hand has been started at a table of three seats: the button
\* has moved from seat 0 past seat 1, which has no chips, to seat 2
C15_Witness ==
  /\ last.op = "start_new_hand"
  /\ last.error = ""
  /\ hands_played = 2
  /\ Len(players) = 3
  /\ players[2].chips = 0
  /\ players[2].current_bet = 0
  /\ dealer_position = 2

\* no two seats at the table carry the same seat index
DistinctIds ==
  \A i \in 1..Len(players), j \in 1..Len(players) :
     i # j => players[i].player_id # players[j].player_id

\* C16 -- Seat identity: after any sequence of add_player and remove_player
\* calls every seat at the table has a distinct seat index, and an index that
\* was assigned once is not assigned to a later joiner.  (A seat's index is
\* never written after the seat is created.)
C16_SeatIdentity ==
  [][/\ DistinctIds'
     /\ (last'.op = "add_player" /\ last'.error = "")
          => players'[Len(players')].player_id \notin issued]_vars

\* C18 -- Minimum raise: every raise accepted by process_player_action
\* increases the high bet by at least the size of the last aggressive
\* increment of the round (the big blind while there has been no bet or
\* raise), for every seat, the blinds included.
C18_MinimumRaise ==
  BettingPhase =>
    \A id \in PlayerIds, x \in Amounts :
      \A b \in {BranchOf(Game, id, ACTION_RAISE, x)} :
        b.error = "" => b.current_bet - current_bet >= round_log.increment

\* C19 -- Short all-in does not re-open betting: a seat that has acted since
\* the action was last re-opened, and is to act again because an all-in
\* raised the high bet by less than the last increment, has no right to
\* raise; so for a seat that has acted since the last re-opening every raise
\* is rejected.
C19_ShortAllIn ==
  BettingPhase =>
    \A id \in round_log.closed :
      active_player(Game) = id =>
        \A x \in Amounts : BranchOf(Game, id, ACTION_RAISE, x).error # ""

\* the amounts tried with a bet or a raise in the hands checked
RaiseAmounts == Amounts \cup S5Amounts

\* C17 -- A raise re-opens the action: once a bet or raise has increased the
\* high bet, an action closes the betting round only if every other
\* non-folded, non-all-in seat has had a turn since the last such bet or
\* raise and has matched the high bet; and (scenario S5) when the pre-flop
\* round of four seats closes at a high bet of nine big blinds with no seat
\* folded and every seat began the hand with a hundred big blinds, every
\* seat has contributed nine big blinds and the pot holds nine big blinds per
\* seat (thirty-six for the four seats of the scenario).
C17_RaiseReopens ==
  BettingPhase =>
    \A id \in {active_player(Game)}, action \in OfferedActions, x \in RaiseAmounts :
      \A b \in {BranchOf(Game, id, action, x)} :
        b.error = "" =>
          \A r \in {ProcessAction(Game, id, action, x)} :
            LET raises == b.current_bet > current_bet
                            /\ action \in {ACTION_BET, ACTION_RAISE}
                had_turn == IF raises THEN {id} ELSE round_log.turned \cup {id}
                others == {k \in 1..Len(players) :
                             /\ b.players[k].player_id # id
                             /\ b.players[k].is_active
                             /\ ~b.players[k].is_all_in}
                closes == r.current_phase # current_phase
            IN /\ ((round_log.reopened \/ raises) /\ closes)
                    => \A k \in others :
                          /\ players[k].player_id \in had_turn
                          /\ b.players[k].current_bet = b.current_bet
               /\ (/\ closes
                   /\ current_phase = PHASE_PREFLOP
                   /\ Len(players) = S5Seats
                   /\ b.current_bet = 9 * big_blind
                   /\ \A k \in 1..Len(players) :
                        /\ b.players[k].is_active
                        /\ players[k].chips + players[k].current_bet = S5Stack)
                    => /\ \A k \in 1..Len(players) :
                            /\ b.players[k].current_bet = 9 * big_blind
                            /\ r.players[k].chips = S5Stack - 9 * big_blind
                       /\ PotTotal(r.pots) = S5Seats * 9 * big_blind
                       /\ r.current_phase = PHASE_FLOP

\* scenario S5 before its last call: the under-the-gun seat, the dealer and
\* the big blind stand at nine big blinds and have had their turn since the
\* big blind's raise, and the small blind, at three big blinds, is to act
\* and closes the round by calling
C17_Witness ==
  /\ current_phase = PHASE_PREFLOP
  /\ Len(players) = S5Seats
  /\ dealer_position = 0
  /\ current_bet = 9 * big_blind
  /\ round_log.reopened
  /\ active_player_index = small_blind_position
  /\ players[small_blind_position + 1].current_bet = 3 * big_blind
  /\ \A k \in 1..Len(players) :
       /\ players[k].is_active
       /\ players[k].chips + players[k].current_bet = S5Stack
       /\ k # small_blind_position + 1 => players[k].current_bet = 9 * big_blind
  /\ round_log.turned
       = {players[k].player_id : k \in (1..Len(players)) \ {small_blind_position + 1}}
  /\ ProcessAction(Game, active_player(Game), ACTION_CALL, 0).current_phase
       = PHASE_FLOP

\* in process_player_action: the pots _distribute_pot is handed when the
\* action of seat i (engine b after its branch) closes the betting
DistributedPots(b, i) ==
  IF ClosesWithAllIn(MarkActed(b, i)) THEN create_side_pots(MarkActed(b, i)).pots
  ELSE b.pots

\* how many seats one passes going clockwise from the seat after the dealer
\* to reach a seat (0-based index)
AfterDealer(g, seat) ==
  (seat + Len(g.players) - g.dealer_position - 1) % Len(g.players)

\* C20 -- Chop with remainder: when k > 1 seats tie for a pot of amount P,
\* each is paid P div k out of it and the P mod k leftover chips go one per
\* seat to the tied seats nearest clockwise from the dealer (so what the pot
\* pays adds up to P), and every winner's chip count rises by exactly the
\* amount recorded for it.
C20_ChopWithRemainder ==
  BettingPhase =>
    \A id \in {active_player(Game)}, action \in OfferedActions, x \in Amounts :
      \A b \in {BranchOf(Game, id, action, x)} :
        b.error = "" =>
          \A r \in {ProcessAction(Game, id, action, x)} :
            (/\ r.current_phase = PHASE_SHOWDOWN
             /\ Len(r.winners) > 1
             /\ Len(r.community_cards) >= 3
             /\ \A n, m \in 1..Len(r.winners) :
                   BestFiveCardHand(r.players[r.winners[n].player + 1].cards
                                      \o r.community_cards)
                     = BestFiveCardHand(r.players[r.winners[m].player + 1].cards
                                          \o r.community_cards))
            => LET ps == DistributedPots(b, FindPlayer(Game, id))
                   W == r.winners
               IN /\ \A j \in 1..Len(ps) :
                       LET tied == {n \in 1..Len(W) :
                                      W[n].player_id \in SeqRange(ps[j].eligible_players)}
                           k == Cardinality(tied)
                           before(n) == Cardinality({m \in tied :
                                           AfterDealer(r, W[m].player)
                                             < AfterDealer(r, W[n].player)})
                       IN k > 1 =>
                            \A n \in tied :
                               PotShare(ps[j], W, n)
                                 = (ps[j].amount \div k)
                                   + (IF before(n) < ps[j].amount % k THEN 1 ELSE 0)
                  /\ \A n \in 1..Len(W) :
                       r.players[W[n].player + 1].chips
                         = b.players[W[n].player + 1].chips + W[n].amount

\* C21 -- All-in run-out: when an action closes the betting round in
\* pre_flop, flop or turn and no non-folded seat that is not all-in remains
\* (two or more seats not folded), the call ends in showdown with exactly 5
\* community cards.
C21_AllInRunOut ==
  current_phase \in {PHASE_PREFLOP, PHASE_FLOP, PHASE_TURN} =>
    \A id \in {active_player(Game)}, action \in OfferedActions, x \in Amounts :
      \A b \in {BranchOf(Game, id, action, x)} :
        b.error = "" =>
          \A m \in {MarkActed(b, FindPlayer(Game, id))} :
            (/\ is_betting_round_complete(m)
             /\ ActiveNotAllInIdx(m) = {}
             /\ Cardinality(ActiveIdx(m)) >= 2)
            => \A r \in {ProcessAction(Game, id, action, x)} :
                  /\ r.current_phase = PHASE_SHOWDOWN
                  /\ Len(r.community_cards) = 5

\* the fold of the seat to act leaves one seat that has not folded
FoldsOut(g) ==
  /\ g.active_player_index # None
  /\ g.players[g.active_player_index + 1].is_active
  /\ Cardinality(ActiveIdx(g)) = 2

NoRepeat(cards) == Cardinality(SeqRange(cards)) = Len(cards)

\* where the cards of the hand are: the deck, each seat's hole cards, the
\* board and the burned cards
CardPiles ==
  <<SeqRange(deck)>>
    \o [k \in 1..Len(players) |-> SeqRange(players[k].cards)]
    \o <<SeqRange(community_cards), burned>>

\* C24 -- Card uniqueness: in every state of a hand the deck, every seat's
\* hole cards, the community cards and the burned cards hold no card twice,
\* are pairwise disjoint, and together are the 52 cards of one deck.
C24_CardUniqueness ==
  current_phase # PHASE_NONE =>
    /\ NoRepeat(deck)
    /\ NoRepeat(community_cards)
    /\ \A k \in 1..Len(players) : NoRepeat(players[k].cards)
    /\ \A a, b \in 1..Len(CardPiles) : a # b => CardPiles[a] \cap CardPiles[b] = {}
    /\ UNION {CardPiles[a] : a \in 1..Len(CardPiles)} = SeqRange(DeckReset)

\* C24 -- Card uniqueness, as the engine keeps it: after every operation the
\* deck, every seat's hole cards, the community cards and the burned cards
\* hold no card twice and are pairwise disjoint; they are together the 52
\* cards of one deck when a hand has just been started, and add_player and
\* process_player_action leave the cards they hold together as they were
\* (remove_player takes the hole cards of the seat that leaves with it).
C24_CardsAtMostOnce ==
  [][/\ NoRepeat(deck')
     /\ NoRepeat(community_cards')
     /\ \A k \in 1..Len(players') : NoRepeat(players'[k].cards)
     /\ \A a, b \in 1..Len(CardPiles') : a # b => CardPiles'[a] \cap CardPiles'[b] = {}
     /\ (last'.op = "start_new_hand" /\ last'.error = "")
          => UNION {CardPiles'[a] : a \in 1..Len(CardPiles')} = SeqRange(DeckReset)
     /\ last'.op \in {"add_player", "process_player_action"}
          => UNION {CardPiles'[a] : a \in 1..Len(CardPiles')}
               = UNION {CardPiles[a] : a \in 1..Len(CardPiles)}]_vars

\* a river state: every seat holds two cards, five are on the board and
\* three have been burned
C24_Witness ==
  /\ current_phase = PHASE_RIVER
  /\ Len(community_cards) = 5
  /\ Cardinality(burned) = 3
  /\ \A k \in 1..Len(players) : Len(players[k].cards) = 2
  /\ Len(deck) = 52 - 8 - 2 * Len(players)

\* no seat's chips, no seat's current-round contribution and no pot amount of
\* an engine record is negative
NonNegative(g) ==
  /\ \A k \in 1..Len(g.players) :
        g.players[k].chips >= 0 /\ g.players[k].current_bet >= 0
  /\ \A j \in 1..Len(g.pots) : g.pots[j].amount >= 0

\* amounts passed to process_player_action, negative and oversized ones
\* included
AnyAmounts == Amounts \cup {0 - 6, 0 - 1, 1, 100}

\* C25 -- Non-negative chips: in every reachable state every seat's chip
\* count, every seat's current-round contribution and every pot amount is
\* >= 0, and they are so after process_player_action whatever seat, action
\* and amount it is passed.
C25_NonNegativeChips ==
  /\ NonNegative(Game)
  /\ \A id \in PlayerIds, action \in Actions, x \in AnyAmounts :
        NonNegative(ProcessAction(Game, id, action, x))

\* a seat facing a high bet larger than its chips, whose call leaves it with
\* 0 chips, and whose raises to a negative and to an oversized amount are
\* rejected
C25_Witness ==
  /\ BettingPhase
  /\ active_player_index # None
  /\ \E pl \in {players[active_player_index + 1]} :
        /\ pl.is_active
        /\ pl.chips > 0
        /\ current_bet - pl.current_bet > pl.chips
        /\ \E r \in {ProcessAction(Game, pl.player_id, ACTION_CALL, 0)} :
              r.error = "" /\ r.players[active_player_index + 1].chips = 0
        /\ ProcessAction(Game, pl.player_id, ACTION_RAISE, 0 - 6).error # ""
        /\ ProcessAction(Game, pl.player_id, ACTION_RAISE, 100).error # ""

\* the place of a phase in the order of a hand
PhaseRank(phase) ==
  IF phase = PHASE_NONE THEN 0
  ELSE IF phase = PHASE_PREFLOP THEN 1
  ELSE IF phase = PHASE_FLOP THEN 2
  ELSE IF phase = PHASE_TURN THEN 3
  ELSE IF phase = PHASE_RIVER THEN 4
  ELSE 5

\* C26 -- Phase progression within a hand: a start_new_hand that succeeds
\* leaves the phase pre_flop; every other operation leaves the phase as it
\* was, or moves it from a betting phase to the next phase in the order
\* pre_flop, flop, turn, river, showdown, or from a betting phase straight to
\* showdown; so the phase never moves backwards and stays showdown until the
\* next start_new_hand.
C26_PhaseProgression ==
  [][IF last'.op = "start_new_hand" /\ last'.error = ""
     THEN current_phase' = PHASE_PREFLOP
     ELSE \/ current_phase' = current_phase
          \/ /\ BettingPhase
             /\ \/ PhaseRank(current_phase') = PhaseRank(current_phase) + 1
                \/ current_phase' = PHASE_SHOWDOWN]_vars

\* the second hand of a session has gone through every phase to a showdown
\* with five community cards
C26_Witness ==
  /\ hands_played = 2
  /\ current_phase = PHASE_SHOWDOWN
  /\ Len(community_cards) = 5
  /\ last.op = "process_player_action"
  /\ last.error = ""

\* the step is the end of the sleep of timeout task t
TimeoutExpires(t) ==
  /\ t \in tasks
  /\ t \notin tasks'
  /\ Cardinality(tasks') < Cardinality(tasks)
  /\ sockets' = sockets

AwaitedOffline(player_id) ==
  /\ BettingPhase
  /\ active_player(Game) = player_id
  /\ player_id \in DOMAIN player_connection_status
  /\ ~player_connection_status[player_id]

\* C29 -- Unresponsive to-act seat is eventually folded: a seat that is to
\* act while disconnected, whether it disconnected before or after it became
\* the seat to act, does not stay so for ever: it acts, it connects again, or
\* a fold is applied on its behalf and the turn passes on.
C29_EventuallyFolded ==
  \A player_id \in PlayerIds :
     AwaitedOffline(player_id) ~> ~AwaitedOffline(player_id)

\* C30 -- a response of get_game_state or admin_get_game_state made while a
\* call of process_player_action is being made is the response for the
\* engine as it was before the call or as it is after the call.
C30_SerializedReads ==
  (in_flight # <<>> /\ observed # <<>>) =>
     \E call \in {in_flight[1]} :
        observed[1] \in Responses(call.before)
                          \cup Responses(ProcessAction(call.before, call.player_id,
                                                       call.action, call.amount))
\* the engine g with the cards of every seat but player_id's, and the deck,
\* taken away
OthersHidden(g, player_id) ==
  [g EXCEPT !.deck = <<>>,
            !.players = [k \in 1..Len(g.players) |->
                           IF g.players[k].player_id = player_id
                           THEN g.players[k]
                           ELSE [g.players[k] EXCEPT !.cards = <<>>]]]

\* C31 -- the response create_game_state_response builds for a seat, or for
\* a spectator, is the response it builds when the other seats hold no
\* cards and the deck is empty: it depends on no hole card of another seat
\* and on no card of the deck, so two engines that differ only in those get
\* equal responses.
C31_HoleCardPrivacy ==
  \A player_id \in {None} \cup Seated :
     create_game_state_response(Game, player_id)
       = create_game_state_response(OthersHidden(Game, player_id), player_id)

\* a seat has been answered with its two cards while another seat held cards
C31_Witness ==
  /\ observed # <<>>
  /\ observed[1].endpoint = "get_game_state"
  /\ observed[1].response.player_id \in Seated
  /\ Len(observed[1].response.your_cards) = 2
  /\ \E k \in 1..Len(players) :
       /\ players[k].player_id # observed[1].response.player_id
       /\ Len(players[k].cards) = 2
  /\ observed[1].response
       = create_game_state_response(OthersHidden(Game, observed[1].response.player_id),
                                    observed[1].response.player_id)
\* the ranks of the cards of a hand
RanksOf(h) == {RankValue(c) : c \in h}

\* whether the cards of a hand are of one suit
OneSuit(h) == Cardinality({Suit(c) : c \in h}) = 1

\* C32 -- A-2-3-4-5 is evaluated as a Straight, a Straight Flush when of one
\* suit, and its value is below the value of every other straight;
\* 9-T-J-Q-K is evaluated below every T-J-Q-K-A that is, like it, of one
\* suit or of more than one.
C32_WheelLowest ==
  evaluation # <<>> =>
    /\ RanksOf(hand) = StraightRanks(0 - 1) =>
         /\ evaluation[1].rank = IF OneSuit(hand) THEN STRAIGHT_FLUSH ELSE STRAIGHT
         /\ \A other \in StraightHands :
              RanksOf(other) # RanksOf(hand) =>
                TupleGT(EvaluateFiveCardHand(other).value, evaluation[1].value)
    /\ RanksOf(hand) = StraightRanks(7) =>
         \A other \in StraightHands :
            (RanksOf(other) = StraightRanks(8) /\ OneSuit(other) = OneSuit(hand)) =>
              /\ HandBetter(EvaluateFiveCardHand(other), evaluation[1])
              /\ ~HandBetter(evaluation[1], EvaluateFiveCardHand(other))

\* A-2-3-4-5 of two suits has been evaluated, with the ace below the two
C32_Witness ==
  /\ evaluation # <<>>
  /\ RanksOf(hand) = {12, 0, 1, 2, 3}
  /\ ~OneSuit(hand)
  /\ evaluation[1] = [rank |-> STRAIGHT, value |-> <<3, 2, 1, 0, 0 - 1>>]
\* seat i of the list ps has not folded and is not all-in
CanAct(ps, i) == ps[i + 1].is_active /\ ~ps[i + 1].is_all_in

\* the seats of ps that can act, by the number of steps clockwise from
\* seat i (the seat itself comes last)
StepsToActor(ps, i) == {k \in 1..Len(ps) : CanAct(ps, (i + k) % Len(ps))}

\* the first seat of ps that can act clockwise from seat i
FirstToAct(ps, i) ==
  (i + (CHOOSE k \in StepsToActor(ps, i) : \A m \in StepsToActor(ps, i) : k <= m))
    % Len(ps)

\* the step is a call of process_player_action that is accepted
AcceptsAction ==
  /\ last'.op = "process_player_action"
  /\ last'.error = ""
  /\ gameVars' # gameVars

\* C33 -- after an accepted action that leaves the hand in a betting phase
\* with a seat that can act, the seat to act is the first seat clockwise
\* that has not folded and is not all-in: counted from the seat that acted
\* when the phase is the same, from the dealer when the phase is a new one.
C33_TurnOrder ==
  [][(AcceptsAction /\ BettingPhase /\ BettingPhase'
        /\ \E i \in 0..(Len(players') - 1) : CanAct(players', i))
     => active_player_index'
          = IF current_phase' = current_phase
            THEN FirstToAct(players', active_player_index)
            ELSE FirstToAct(players', dealer_position')]_vars
\* a bet or raise of seat i has been accepted and the turn is with the
\* seat after the next of the list, the next having folded or being all-in
C33_Witness ==
  /\ last.op = "process_player_action"
  /\ last.error = ""
  /\ last.action \in {ACTION_BET, ACTION_RAISE}
  /\ BettingPhase
  /\ Len(players) = 3
  /\ NoJoiner
  /\ \E i \in 0..2 :
       /\ round_log.turned = {players[i + 1].player_id}
       /\ CanAct(players, i)
       /\ ~CanAct(players, (i + 1) % 3)
       /\ active_player_index = (i + 2) % 3
       /\ active_player_index = FirstToAct(players, i)
       /\ ~players[active_player_index + 1].has_acted
\* before the flop at a table of three or more seats, all dealt in, with
\* chips and none all-in, nobody has raised, every seat but the blinds has
\* called or folded, the big blind has had no turn and the small blind is to
\* act and can call in full
LimpedToSmallBlind ==
  /\ current_phase = PHASE_PREFLOP
  /\ Len(players) >= 3
  /\ NoJoiner
  /\ \A k \in 1..Len(players) : ~players[k].is_all_in /\ players[k].chips > 0
  /\ \A k \in 1..Len(players) :
        k - 1 \notin {small_blind_position, big_blind_position}
        => ~players[k].is_active \/ players[k].current_bet = current_bet
  /\ current_bet = big_blind
  /\ ~round_log.reopened
  /\ players[big_blind_position + 1].player_id \notin round_log.turned
  /\ players[big_blind_position + 1].is_active
  /\ active_player_index = small_blind_position
  /\ players[small_blind_position + 1].chips
       > current_bet - players[small_blind_position + 1].current_bet

C35_ToActCanAct ==
  (BettingPhase /\ active_player_index # None) =>
     /\ players[active_player_index + 1].is_active
     /\ ~players[active_player_index + 1].is_all_in
     /\ players[active_player_index + 1].chips > 0
\* C36 -- a bet or raise that is accepted in a betting phase leaves the high
\* bet strictly above what it was (the step the hand's termination is said
\* to rest on).
C36_RaiseIncreases ==
  BettingPhase =>
    \A player_id \in PlayerIds, action \in {ACTION_BET, ACTION_RAISE}, amount \in Amounts :
       \A b \in {BranchOf(Game, player_id, action, amount)} :
          b.error = "" => b.current_bet > current_bet
\* C37 -- in a betting phase a seat that was not dealt in (it joined after
\* start_new_hand) is not the seat to act.
C37_JoinerSitsOut ==
  BettingPhase =>
    \A k \in 1..Len(players) :
       Len(players[k].cards) = 0 => active_player_index # k - 1
\* C38 -- a start_new_hand that starts a hand leaves the chips of the seats
\* and of the pots together, blinds and antes posted, what they were before
\* the call.
C38_StartKeepsChips ==
  [][StartsHand
     => ChipsOf(players') + PotTotal(pots') = ChipsOf(players) + PotTotal(pots)]_vars

\* C39 -- a seat that folded during the hand is not among the winners that an
\* accepted action of a betting round returns, and the distribution leaves its
\* chips as they were: every winner is a seat still in the hand, flagged
\* all-in before its fold or not.
C39_FoldedNeverWins ==
  [][AcceptsAction /\ BettingPhase
     => /\ \A n \in 1..Len(last'.winners) :
             players'[last'.winners[n].player + 1].is_active
        /\ \A i \in 1..Len(players) :
             ~players'[i].is_active => players'[i].chips <= players[i].chips]_vars

\* the seat numbers the engine keeps as designations: dealer, small blind, big
\* blind and seat to act
Designations ==
  <<dealer_position, small_blind_position, big_blind_position, active_player_index>>

\* remove_player has removed a seat
RemovesSeat == last'.op = "remove_player" /\ last'.error = ""

\* C40 -- after remove_player has removed a seat, the dealer, small-blind,
\* big-blind and to-act designations each denote a seat at the table, and the
\* player each denoted before the call unless that player is the one removed.
C40_DesignationsKept ==
  [][RemovesSeat
     => \A k \in 1..Len(Designations) :
          LET d == Designations[k]
              e == Designations'[k]
          IN /\ e # None => e < Len(players')
             /\ (/\ d # None
                 /\ d < Len(players)
                 /\ \E i \in 1..Len(players') :
                       players'[i].player_id = players[d + 1].player_id)
                => /\ e # None
                   /\ e < Len(players')
                   /\ players'[e + 1].player_id = players[d + 1].player_id]_vars

====
